---- MODULE Spec2Model ----
(***************************************************************************)
(* Model of the MIR inlining pass, librustc_mir/transform/inline.rs.       *)
(*                                                                         *)
(* Indices (BasicBlock, Var, Temp, VisibilityScope, Promoted) are 0-based  *)
(* as in the source; the table entry of index i is element i+1 of the      *)
(* sequence that models the IndexVec.  Option<index> is modelled by the    *)
(* integer None, every other absent value by the record Nil.               *)
(***************************************************************************)
EXTENDS Integers, Sequences, FiniteSets

None == -1
Nil == [nil |-> TRUE]

DEFAULT_THRESHOLD == 50
HINT_THRESHOLD == 100
INSTR_COST == 5
CALL_PENALTY == 25
UNKNOWN_SIZE_COST == 10
START_BLOCK == 0

\* Bound of the model: how many rescans deep a callsite may descend from a
\* callsite collected at the start of inline_scc (see the field history of
\* a callsite).  It exceeds the number of functions of a program.
MaxDepth == 5

At(seq, i) == seq[i + 1]
Idxs(seq) == 0 .. (Len(seq) - 1)
Max2(a, b) == IF a >= b THEN a ELSE b

(***************************************************************************)
(* rustc::mir::repr : lvalues, operands, rvalues, statements, terminators  *)
(***************************************************************************)
LvVar(i) == [lk |-> "Var", idx |-> i, base |-> Nil, elem |-> Nil]
LvTemp(i) == [lk |-> "Temp", idx |-> i, base |-> Nil, elem |-> Nil]
LvArg(i) == [lk |-> "Arg", idx |-> i, base |-> Nil, elem |-> Nil]
ReturnPointer == [lk |-> "ReturnPointer", idx |-> None, base |-> Nil, elem |-> Nil]
LvStatic == [lk |-> "Static", idx |-> None, base |-> Nil, elem |-> Nil]
Projection(b, e) == [lk |-> "Projection", idx |-> None, base |-> b, elem |-> e]

ElemDeref == [ek |-> "Deref", op |-> Nil]
ElemField == [ek |-> "Field", op |-> Nil]
ElemIndex(o) == [ek |-> "Index", op |-> o]

Deref(lv) == Projection(lv, ElemDeref)

Consume(lv) == [ok |-> "Consume", lv |-> lv, promoted |-> None]
Constant == [ok |-> "Constant", lv |-> Nil, promoted |-> None]
ConstPromoted(p) == [ok |-> "Constant", lv |-> Nil, promoted |-> p]

RvUse(o) == [rk |-> "Use", op |-> o, lv |-> Nil]
RvRef(lv) == [rk |-> "Ref", op |-> Nil, lv |-> lv]
RvCast(o) == [rk |-> "Cast", op |-> o, lv |-> Nil]

SourceInfo(sc, sp) == [scope |-> sc, span |-> sp]

Assign(lv, rv, si) == [kind |-> "Assign", lv |-> lv, rv |-> rv, source_info |-> si]
StorageLive(lv, si) == [kind |-> "StorageLive", lv |-> lv, rv |-> Nil, source_info |-> si]
StorageDead(lv, si) == [kind |-> "StorageDead", lv |-> lv, rv |-> Nil, source_info |-> si]
Nop(si) == [kind |-> "Nop", lv |-> Nil, rv |-> Nil, source_info |-> si]

\* A function operand: a constant of type TyFnDef(callee, substs, abi), a
\* constant of another type (a function pointer), or no constant at all (an
\* indirect call).
FnConst(callee, substs, abi) ==
    [const |-> TRUE, fn_def |-> TRUE, callee |-> callee, substs |-> substs,
     abi |-> abi]
FnPtrConst ==
    [const |-> TRUE, fn_def |-> FALSE, callee |-> "", substs |-> <<>>,
     abi |-> "Rust"]
FnIndirect ==
    [const |-> FALSE, fn_def |-> FALSE, callee |-> "", substs |-> <<>>,
     abi |-> "Rust"]

Term0 ==
    [kind |-> "Return", targets |-> <<>>, unwind |-> None, func |-> Nil,
     args |-> <<>>, dest_some |-> FALSE, dest_lv |-> Nil, dest_target |-> None,
     location |-> Nil, source_info |-> SourceInfo(0, "sp")]

Goto(t) == [Term0 EXCEPT !.kind = "Goto", !.targets = <<t>>]
If(t1, t2) == [Term0 EXCEPT !.kind = "If", !.targets = <<t1, t2>>]
SwitchInt(ts) == [Term0 EXCEPT !.kind = "SwitchInt", !.targets = ts]
Drop(loc, t, u) ==
    [Term0 EXCEPT !.kind = "Drop", !.location = loc, !.targets = <<t>>, !.unwind = u]
DropAndReplace(loc, t, u) ==
    [Term0 EXCEPT !.kind = "DropAndReplace", !.location = loc, !.targets = <<t>>,
                  !.unwind = u]
\* Call { func, args, destination: Some((lv, t)), cleanup }; the cleanup edge
\* is held in the field unwind.
Call(f, as, lv, t, c) ==
    [Term0 EXCEPT !.kind = "Call", !.func = f, !.args = as, !.dest_some = TRUE,
                  !.dest_lv = lv, !.dest_target = t, !.unwind = c]
\* Call { destination: None, .. }
CallDiverging(f, as, c) ==
    [Term0 EXCEPT !.kind = "Call", !.func = f, !.args = as, !.unwind = c]
TermAssert(t, c) == [Term0 EXCEPT !.kind = "Assert", !.targets = <<t>>, !.unwind = c]
Return == Term0
Resume == [Term0 EXCEPT !.kind = "Resume"]
Unreachable == [Term0 EXCEPT !.kind = "Unreachable"]

IsDropKind(t) == t.kind \in {"Drop", "DropAndReplace"}
HasUnwindEdge(t) == t.kind \in {"Drop", "DropAndReplace", "Call", "Assert"}

BasicBlockData(stmts, term, cl) ==
    [statements |-> stmts, terminator |-> term, is_cleanup |-> cl]

\* Terminator::successors()
Successors(t) ==
    t.targets
    \o (IF t.kind = "Call" /\ t.dest_some THEN <<t.dest_target>> ELSE <<>>)
    \o (IF HasUnwindEdge(t) /\ t.unwind # None THEN <<t.unwind>> ELSE <<>>)

SeqRange(s) == {s[i] : i \in DOMAIN s}

(***************************************************************************)
(* Services of the type context (tcx).  Types are the names in Types; "T"  *)
(* is the type parameter of a generic function.                            *)
(***************************************************************************)
Types == {"u8", "usize", "big", "huge", "Box", "ref", "ptr", "T"}

\* codemap().is_valid_span
is_valid_span(span) == span # "invalid"

\* Ty::subst with the callsite's substs
SubstTy(ty, substs) == IF ty = "T" /\ Len(substs) > 0 THEN substs[1] ELSE ty

\* type_size_of: Some(bytes), or None for a type whose layout is unknown
type_size_of(ty) ==
    CASE ty = "u8" -> 1
      [] ty = "usize" -> 8
      [] ty \in {"Box", "ref", "ptr"} -> 8
      [] ty = "big" -> 48
      [] ty = "huge" -> 1600
      [] OTHER -> None

\* tcx.data_layout.pointer_size.bytes()
ptr_size == 8

\* tcx.type_needs_drop_given_env
type_needs_drop_given_env(ty) == ty \in {"Box", "T"}

\* Lvalue::ty / Operand::ty / Rvalue::ty, as far as the pass reads them
LvalueTy(mir, lv) ==
    CASE lv.lk = "Var" -> At(mir.var_decls, lv.idx).ty
      [] lv.lk = "Temp" -> At(mir.temp_decls, lv.idx).ty
      [] OTHER -> "usize"

OperandTy(mir, op) == IF op.ok = "Consume" THEN LvalueTy(mir, op.lv) ELSE "usize"

(***************************************************************************)
(* Integrator                                                              *)
(***************************************************************************)
\* What bug!() leaves in place of the lvalue: the pass aborts with an
\* internal compiler error.
BugLvalue == [lk |-> "Bug", idx |-> None, base |-> Nil, elem |-> Nil]

\* Mutant: the offset is off by one.
update_target_off(I, tgt) == tgt + I.block_idx + 1

update_target(I, tgt) == tgt + I.block_idx

update_span(I, span) ==
    IF is_valid_span(span) THEN span ELSE I.callsite.location.span

\* Mutant: the scope after the mapped one.
visit_visibility_scope_off(I, scope) == At(I.scope_map, scope) + 1

visit_visibility_scope(I, scope) == At(I.scope_map, scope)

visit_source_info(I, si) ==
    SourceInfo(visit_visibility_scope(I, si.scope), update_span(I, si.span))

visit_literal(I, op) ==
    IF op.promoted # None /\ op.promoted < Len(I.promoted_map)
    THEN [op EXCEPT !.promoted = At(I.promoted_map, op.promoted)]
    ELSE op

RECURSIVE visit_lvalue(_, _)
RECURSIVE visit_operand(_, _)

visit_lvalue(I, lv) ==
    CASE lv.lk = "Var" ->
           IF lv.idx < Len(I.var_map) THEN LvVar(At(I.var_map, lv.idx)) ELSE lv
      [] lv.lk = "Temp" ->
           IF lv.idx < Len(I.tmp_map) THEN LvTemp(At(I.tmp_map, lv.idx)) ELSE lv
      [] lv.lk = "ReturnPointer" -> I.destination
      [] lv.lk = "Arg" ->
           IF At(I.args, lv.idx).ok = "Consume"
           THEN At(I.args, lv.idx).lv
           ELSE BugLvalue
      [] lv.lk = "Projection" ->
           Projection(visit_lvalue(I, lv.base),
                      IF lv.elem.ek = "Index"
                      THEN ElemIndex(visit_operand(I, lv.elem.op))
                      ELSE lv.elem)
      [] OTHER -> lv

visit_operand(I, op) ==
    IF op.ok = "Consume" /\ op.lv.lk = "Arg"
    THEN At(I.args, op.lv.idx)
    ELSE IF op.ok = "Consume"
         THEN Consume(visit_lvalue(I, op.lv))
         ELSE visit_literal(I, op)

visit_rvalue(I, rv) ==
    CASE rv.rk = "Ref" -> RvRef(visit_lvalue(I, rv.lv))
      [] rv.rk = "Use" -> RvUse(visit_operand(I, rv.op))
      [] rv.rk = "Cast" -> RvCast(visit_operand(I, rv.op))

visit_statement(I, s) ==
    CASE s.kind = "Assign" ->
           Assign(visit_lvalue(I, s.lv), visit_rvalue(I, s.rv),
                  visit_source_info(I, s.source_info))
      [] s.kind \in {"StorageLive", "StorageDead"} ->
           [s EXCEPT !.lv = visit_lvalue(I, s.lv),
                     !.source_info = visit_source_info(I, s.source_info)]
      [] OTHER -> [s EXCEPT !.source_info = visit_source_info(I, s.source_info)]

\* super_terminator_kind: the operands and lvalues of the terminator
super_terminator_kind(I, t) ==
    [t EXCEPT !.args = [i \in DOMAIN t.args |-> visit_operand(I, t.args[i])],
              !.dest_lv = IF t.dest_some THEN visit_lvalue(I, t.dest_lv) ELSE t.dest_lv,
              !.location = IF IsDropKind(t) THEN visit_lvalue(I, t.location)
                           ELSE t.location]

\* Mutant: an absent edge is filled in whatever the block.
visit_unwind_everywhere(I, unwind) ==
    IF unwind # None THEN update_target(I, unwind) ELSE I.cleanup_block

\* Mutant: an absent edge becomes the return block of the call.
visit_unwind_return(I, unwind) ==
    IF unwind # None
    THEN update_target(I, unwind)
    ELSE IF ~I.in_cleanup_block THEN I.return_block ELSE None

\* The unwind edge of Drop / DropAndReplace and the cleanup edge of Call and
\* Assert: a present edge is relocated, an absent one outside a cleanup block
\* becomes the cleanup edge of the original call.
visit_unwind(I, unwind) ==
    IF unwind # None
    THEN update_target(I, unwind)
    ELSE IF ~I.in_cleanup_block THEN I.cleanup_block ELSE None

\* Mutant: the return block is relocated like a block of the callee.
visit_return_relocated(I, t) == Goto(update_target(I, I.return_block))

visit_return(I, t) == Goto(I.return_block)

visit_resume(I, t) ==
    IF I.cleanup_block # None THEN Goto(I.cleanup_block) ELSE t

visit_terminator_kind(I, t0) ==
    LET t == super_terminator_kind(I, t0)
        moved == [i \in DOMAIN t.targets |-> update_target(I, t.targets[i])]
    IN CASE t.kind \in {"Goto", "If", "Switch", "SwitchInt"} ->
              [t EXCEPT !.targets = moved]
         [] IsDropKind(t) ->
              [t EXCEPT !.targets = moved, !.unwind = visit_unwind(I, t.unwind)]
         [] t.kind = "Call" ->
              [t EXCEPT !.dest_target = IF t.dest_some
                                        THEN update_target(I, t.dest_target)
                                        ELSE t.dest_target,
                        !.unwind = visit_unwind(I, t.unwind)]
         [] t.kind = "Assert" ->
              [t EXCEPT !.targets = moved, !.unwind = visit_unwind(I, t.unwind)]
         [] t.kind = "Return" ->
              [visit_return(I, t) EXCEPT !.source_info = t.source_info]
         [] t.kind = "Resume" ->
              [visit_resume(I, t) EXCEPT !.source_info = t.source_info]
         [] OTHER -> t

visit_terminator(I, t) ==
    LET k == visit_terminator_kind(I, t)
    IN [k EXCEPT !.source_info = visit_source_info(I, t.source_info)]

visit_basic_block_data(I0, data) ==
    LET I == [I0 EXCEPT !.in_cleanup_block = data.is_cleanup]
    IN [statements |-> [i \in DOMAIN data.statements |->
                          visit_statement(I, data.statements[i])],
        terminator |-> visit_terminator(I, data.terminator),
        is_cleanup |-> data.is_cleanup]

(***************************************************************************)
(* Inliner::inline_call and its helpers                                    *)
(***************************************************************************)
\* IndexVec::push on the tables of a Mir; the index pushed is the old length.
PushTemp(mir, ty) == [mir EXCEPT !.temp_decls = Append(@, [ty |-> ty])]

PushStmt(mir, bb, stmt) ==
    [mir EXCEPT !.blocks[bb + 1].statements = Append(@, stmt)]

\* The scope loop: a callee root scope is hung under the scope of the
\* callsite; the parent of any other callee scope is left as it is.
integrate_scope(callsite, callee_span, scope) ==
    LET s1 == IF scope.parent_scope = None
              THEN [parent_scope |-> callsite.location.scope, span |-> callee_span]
              ELSE scope
    IN IF ~is_valid_span(s1.span)
       THEN [s1 EXCEPT !.span = callsite.location.span]
       ELSE s1

\* Mutant: every push is recorded with the index of the first.
pushed_index_first(base, i) == base

\* The index each pushed element receives: the table's length before the
\* push, so callee index i lands at base + i.
pushed_index(base, i) == base + i

index_map(base, n) == [i \in 1 .. n |-> pushed_index(base, i - 1)]

integrate_var(callsite, scope_map, var) ==
    [var EXCEPT !.source_info =
        SourceInfo(At(scope_map, var.source_info.scope),
                   IF is_valid_span(var.source_info.span)
                   THEN var.source_info.span
                   ELSE callsite.location.span)]

RECURSIVE dest_needs_borrow(_)
\* Mutant: only the outermost projection is looked at.
dest_needs_borrow_outermost(lval) ==
    \/ lval.lk = "Static"
    \/ lval.lk = "Projection" /\ lval.elem.ek \in {"Deref", "Index"}

dest_needs_borrow(lval) ==
    CASE lval.lk = "Projection" ->
           IF lval.elem.ek \in {"Deref", "Index"}
           THEN TRUE
           ELSE dest_needs_borrow(lval.base)
      [] lval.lk = "Static" -> TRUE
      [] OTHER -> FALSE

\* Mutant: the temporary is used and never declared.
make_call_arg_undeclared(r, a, callsite) ==
    IF a.ok = "Consume" /\ a.lv.lk = "Temp"
    THEN [mir |-> r.mir, args |-> Append(r.args, a)]
    ELSE [mir |-> PushStmt(r.mir, callsite.bb,
                           Assign(LvTemp(Len(r.mir.temp_decls)), RvUse(a),
                                  callsite.location)),
          args |-> Append(r.args, Consume(LvTemp(Len(r.mir.temp_decls))))]

\* Mutant: every lvalue operand is reused, not only a temporary.
make_call_arg_reusing(r, a, callsite) ==
    IF a.ok = "Consume"
    THEN [mir |-> r.mir, args |-> Append(r.args, a)]
    ELSE [mir |-> PushStmt(PushTemp(r.mir, OperandTy(r.mir, a)), callsite.bb,
                           Assign(LvTemp(Len(r.mir.temp_decls)), RvUse(a),
                                  callsite.location)),
          args |-> Append(r.args, Consume(LvTemp(Len(r.mir.temp_decls))))]

\* One argument of make_call_args: r is [mir, args], the caller so far and the
\* operands already produced.
make_call_arg(r, a, callsite) ==
    IF a.ok = "Consume" /\ a.lv.lk = "Temp"
    THEN [mir |-> r.mir, args |-> Append(r.args, a)]
    ELSE LET arg_tmp == LvTemp(Len(r.mir.temp_decls))
             m1 == PushTemp(r.mir, OperandTy(r.mir, a))
             stmt == Assign(arg_tmp, RvUse(a), callsite.location)
         IN [mir |-> PushStmt(m1, callsite.bb, stmt),
             args |-> Append(r.args, Consume(arg_tmp))]

RECURSIVE make_call_args_from(_, _, _, _)
make_call_args_from(k, args, callsite, r) ==
    IF k > Len(args)
    THEN r
    ELSE make_call_args_from(k + 1, args, callsite, make_call_arg(r, args[k], callsite))

make_call_args(args, callsite, caller_mir) ==
    make_call_args_from(1, args, callsite, [mir |-> caller_mir, args |-> <<>>])

\* cast_box_free_arg: ref_tmp = &mut *arg; cast_tmp = ref_tmp as *mut T.
\* ice: the bug!() for a pointer type that is no box, raw pointer or reference.
cast_box_free_arg(arg, ptr_ty, callsite, caller_mir) ==
    LET ref_tmp == LvTemp(Len(caller_mir.temp_decls))
        m1 == PushTemp(caller_mir, "ref")
        m2 == PushStmt(m1, callsite.bb,
                       Assign(ref_tmp, RvRef(Deref(arg)), callsite.location))
        cast_tmp == LvTemp(Len(m2.temp_decls))
        m3 == PushTemp(m2, "ptr")
        m4 == PushStmt(m3, callsite.bb,
                       Assign(cast_tmp, RvCast(Consume(ref_tmp)), callsite.location))
    IN [mir |-> m4, args |-> <<Consume(cast_tmp)>>,
        ice |-> ptr_ty \notin {"Box", "ptr", "ref"}]

\* The four loops that append the callee's scopes, vars, temps and promoted
\* bodies to the caller's tables.
integrate_tables(callsite, caller_mir, callee_mir) ==
    [caller_mir EXCEPT
       !.visibility_scopes = @ \o
          [n \in DOMAIN callee_mir.visibility_scopes |->
             integrate_scope(callsite, callee_mir.span,
                             callee_mir.visibility_scopes[n])],
       !.var_decls = @ \o
          [n \in DOMAIN callee_mir.var_decls |->
             integrate_var(callsite,
                           index_map(Len(caller_mir.visibility_scopes),
                                     Len(callee_mir.visibility_scopes)),
                           callee_mir.var_decls[n])],
       !.temp_decls = @ \o callee_mir.temp_decls,
       !.promoted = @ \o callee_mir.promoted]

\* let dest = if dest_needs_borrow(&destination.0) { ... }: [mir, dest]
integrate_destination(callsite, terminator, m1) ==
    IF dest_needs_borrow(terminator.dest_lv)
    THEN [mir |-> PushStmt(PushTemp(m1, "ref"), callsite.bb,
                           Assign(LvTemp(Len(m1.temp_decls)),
                                  RvRef(terminator.dest_lv), callsite.location)),
          dest |-> Deref(LvTemp(Len(m1.temp_decls)))]
    ELSE [mir |-> m1, dest |-> terminator.dest_lv]

\* let args = if is_box_free { ... } else { make_call_args(..) }:
\* [mir, args, ice, dest]
integrate_args(callsite, terminator, box_free_fn, d) ==
    IF callsite.callee = box_free_fn
    THEN IF terminator.args[1].ok # "Consume"
         THEN [mir |-> d.mir, args |-> <<>>, ice |-> TRUE, dest |-> d.dest]
         ELSE [mir |-> cast_box_free_arg(terminator.args[1].lv,
                                         OperandTy(d.mir, terminator.args[1]),
                                         callsite, d.mir).mir,
               args |-> cast_box_free_arg(terminator.args[1].lv,
                                          OperandTy(d.mir, terminator.args[1]),
                                          callsite, d.mir).args,
               ice |-> cast_box_free_arg(terminator.args[1].lv,
                                         OperandTy(d.mir, terminator.args[1]),
                                         callsite, d.mir).ice,
               dest |-> d.dest]
    ELSE [mir |-> make_call_args(terminator.args, callsite, d.mir).mir,
          args |-> make_call_args(terminator.args, callsite, d.mir).args,
          ice |-> FALSE, dest |-> d.dest]

\* let mut integrator = Integrator { .. }
new_integrator(callsite, caller_mir, callee_mir, terminator, a) ==
    [block_idx |-> Len(a.mir.blocks),
     args |-> a.args,
     var_map |-> index_map(Len(caller_mir.var_decls), Len(callee_mir.var_decls)),
     tmp_map |-> index_map(Len(caller_mir.temp_decls), Len(callee_mir.temp_decls)),
     scope_map |-> index_map(Len(caller_mir.visibility_scopes),
                             Len(callee_mir.visibility_scopes)),
     promoted_map |-> index_map(Len(caller_mir.promoted), Len(callee_mir.promoted)),
     callsite |-> callsite,
     destination |-> a.dest,
     return_block |-> terminator.dest_target,
     cleanup_block |-> terminator.unwind,
     in_cleanup_block |-> FALSE]

\* Mutant: the call is replaced by a jump to the last block of the caller.
callsite_goto_last(callsite, bb_len) ==
    [Goto(bb_len - 1) EXCEPT !.source_info = callsite.location]

\* The terminator that replaces the call.
callsite_goto(callsite, bb_len) ==
    [Goto(bb_len) EXCEPT !.source_info = callsite.location]

\* The loop over the callee's blocks, and the new terminator of the callsite.
integrate_blocks(callsite, callee_mir, mir, I) ==
    [mir EXCEPT
       !.blocks = [@ EXCEPT ![callsite.bb + 1].terminator =
                                callsite_goto(callsite, I.block_idx)]
                  \o [n \in DOMAIN callee_mir.blocks |->
                        visit_basic_block_data(I, callee_mir.blocks[n])]]

finish_integration(callsite, caller_mir, callee_mir, terminator, a) ==
    IF a.ice
    THEN [ok |-> TRUE, ice |-> TRUE, mir |-> a.mir, integrator |-> Nil]
    ELSE [ok |-> TRUE, ice |-> FALSE,
          mir |-> integrate_blocks(callsite, callee_mir, a.mir,
                     new_integrator(callsite, caller_mir, callee_mir, terminator, a)),
          integrator |->
             new_integrator(callsite, caller_mir, callee_mir, terminator, a)]

\* The body of the arm Call { destination: Some(destination), .. }.
integrate_call(callsite, caller_mir, callee_mir, terminator, box_free_fn) ==
    finish_integration(callsite, caller_mir, callee_mir, terminator,
        integrate_args(callsite, terminator, box_free_fn,
            integrate_destination(callsite, terminator,
                integrate_tables(callsite, caller_mir, callee_mir))))

\* CopyPropagation::run_pass, an opaque collaborator of the pass: it rewrites
\* operands and removes copies, and leaves the block structure, the
\* terminators' edges and the tables of the Mir as they are; the statements
\* are kept as the integration left them.
CopyPropagation(mir) == mir

\* caller_mir[callsite.bb].terminator.take(): the block is left without
\* terminator.
take_terminator(caller_mir, callsite) ==
    [caller_mir EXCEPT !.blocks[callsite.bb + 1].terminator = Nil]

\* Mutant: the terminator taken is not put back.
restore_terminator_forgotten(caller_mir, callsite, terminator) == caller_mir

\* The arm of every other kind: a terminator of the same source_info and
\* kind is put back.
restore_terminator(caller_mir, callsite, terminator) ==
    [caller_mir EXCEPT !.blocks[callsite.bb + 1].terminator =
        [terminator EXCEPT !.source_info = terminator.source_info]]

inline_call(callsite, caller_mir, callee_mir, box_free_fn) ==
    IF callsite.caller = callsite.callee
    THEN [ok |-> FALSE, ice |-> FALSE, mir |-> caller_mir, integrator |-> Nil]
    ELSE LET terminator == At(caller_mir.blocks, callsite.bb).terminator
         IN IF terminator.kind = "Call" /\ terminator.dest_some
            THEN LET r == integrate_call(callsite, caller_mir, callee_mir,
                                         terminator, box_free_fn)
                 IN IF r.ice THEN r ELSE [r EXCEPT !.mir = CopyPropagation(@)]
            ELSE [ok |-> FALSE, ice |-> FALSE,
                  mir |-> restore_terminator(take_terminator(caller_mir, callsite),
                                             callsite, terminator),
                  integrator |-> Nil]

(***************************************************************************)
(* Inliner::should_inline                                                  *)
(***************************************************************************)
statement_cost(stmt) ==
    IF stmt.kind \in {"StorageLive", "StorageDead", "Nop"} THEN 0 ELSE INSTR_COST

RECURSIVE SumSeq(_)
SumSeq(s) == IF s = <<>> THEN 0 ELSE s[1] + SumSeq(Tail(s))

\* Mutant: a call without destination is not taken to diverge.
diverging_arm_unreachable(term, first_block) ==
    first_block /\ term.kind = "Unreachable"

\* The diverging arm: Unreachable | Call { destination: None, .. } if first_block
diverging_arm(term, first_block) ==
    /\ first_block
    /\ \/ term.kind = "Unreachable"
       \/ term.kind = "Call" /\ ~term.dest_some

\* What one terminator adds to the cost (the arms of the match, in order).
terminator_cost(callee_mir, substs, term, first_block) ==
    CASE IsDropKind(term) ->
           IF type_needs_drop_given_env(
                  SubstTy(LvalueTy(callee_mir, term.location), substs))
           THEN CALL_PENALTY
           ELSE INSTR_COST
      [] ~IsDropKind(term) /\ diverging_arm(term, first_block) -> 0
      [] ~diverging_arm(term, first_block) /\ term.kind = "Call" /\ term.func.const ->
           IF term.func.fn_def
           THEN IF term.func.abi \in {"RustIntrinsic", "PlatformIntrinsic"}
                THEN INSTR_COST
                ELSE CALL_PENALTY
           ELSE 0
      [] term.kind = "Assert" -> CALL_PENALTY
      [] OTHER -> INSTR_COST

\* What one terminator pushes on the work list.
terminator_pushes(callee_mir, substs, term) ==
    IF IsDropKind(term)
    THEN term.targets \o
         (IF /\ type_needs_drop_given_env(
                    SubstTy(LvalueTy(callee_mir, term.location), substs))
             /\ term.unwind # None
          THEN <<term.unwind>>
          ELSE <<>>)
    ELSE Successors(term)

\* The while-let loop over the work list; acc is [cost, threshold].
RECURSIVE traverse(_, _, _, _, _, _)
traverse(callee_mir, substs, work_list, visited, acc, first_block) ==
    IF work_list = <<>>
    THEN acc
    ELSE LET bb == work_list[Len(work_list)]
             rest == SubSeq(work_list, 1, Len(work_list) - 1)
         IN IF bb \in visited
            THEN traverse(callee_mir, substs, rest, visited, acc, first_block)
            ELSE LET blk == At(callee_mir.blocks, bb)
                     term == blk.terminator
                     stmts == SumSeq([i \in DOMAIN blk.statements |->
                                        statement_cost(blk.statements[i])])
                     acc1 == [cost |-> acc.cost + stmts
                                       + terminator_cost(callee_mir, substs, term,
                                                         first_block),
                              threshold |->
                                 IF ~IsDropKind(term) /\ diverging_arm(term, first_block)
                                 THEN 0
                                 ELSE acc.threshold]
                 IN traverse(callee_mir, substs,
                             rest \o terminator_pushes(callee_mir, substs, term),
                             visited \cup {bb}, acc1, FALSE)

\* Cost of one var or temp slot: its size in machine words, if known.
decl_cost(ty, substs) ==
    LET size == type_size_of(SubstTy(ty, substs))
    IN IF size # None THEN size \div ptr_size ELSE UNKNOWN_SIZE_COST

decls_cost(callee_mir, substs) ==
    SumSeq([i \in DOMAIN callee_mir.var_decls |->
              decl_cost(callee_mir.var_decls[i].ty, substs)])
    + SumSeq([i \in DOMAIN callee_mir.temp_decls |->
                decl_cost(callee_mir.temp_decls[i].ty, substs)])

hinted_of(hint) == hint \in {"Always", "Hint"}

initial_threshold(hinted) == IF hinted THEN HINT_THRESHOLD ELSE DEFAULT_THRESHOLD

\* Mutant: a cold callee keeps a quarter of the threshold.
cold_threshold_quarter(threshold, cold) == IF cold THEN threshold \div 4 ELSE threshold

cold_threshold(threshold, cold) == IF cold THEN threshold \div 5 ELSE threshold

small_bonus(threshold, nblocks) ==
    IF nblocks <= 3 THEN threshold + threshold \div 4 ELSE threshold

final_decision(hint, cost, threshold) ==
    IF hint = "Always" THEN TRUE ELSE cost <= threshold

\* The cost and threshold should_inline arrives at when no gate returns early.
cost_and_threshold(a, substs, callee_mir) ==
    LET threshold == small_bonus(
                        cold_threshold(initial_threshold(hinted_of(a.inline)), a.cold),
                        Len(callee_mir.blocks))
        t == traverse(callee_mir, substs, <<START_BLOCK>>, {},
                      [cost |-> 0, threshold |-> threshold], TRUE)
    IN [cost |-> t.cost + decls_cost(callee_mir, substs), threshold |-> t.threshold]

\* a: what tcx knows of the callee: [inline, cold, trait_item, local].
should_inline(a, substs, callee_mir) ==
    IF callee_mir.upvar_decls > 0 THEN FALSE
    ELSE IF a.trait_item THEN FALSE
    ELSE IF a.inline = "Never" THEN FALSE
    ELSE IF a.local /\ Len(substs) = 0 /\ ~hinted_of(a.inline) THEN FALSE
    ELSE LET ct == cost_and_threshold(a, substs, callee_mir)
         IN final_decision(a.inline, ct.cost, ct.threshold)

(***************************************************************************)
(* Collaborators of inline_scc                                             *)
(***************************************************************************)
\* Mir::subst: the callsite's substs put for the type parameter in the
\* types of the locals and in the substs of the calls of the body.
SubstMir(mir, substs) ==
    [mir EXCEPT
       !.var_decls = [i \in DOMAIN @ |-> [@[i] EXCEPT !.ty = SubstTy(@, substs)]],
       !.temp_decls = [i \in DOMAIN @ |-> [@[i] EXCEPT !.ty = SubstTy(@, substs)]],
       !.blocks = [i \in DOMAIN @ |->
          IF @[i].terminator.kind = "Call" /\ @[i].terminator.func.const
          THEN [@[i] EXCEPT !.terminator.func.substs =
                  [j \in DOMAIN @ |-> SubstTy(@[j], substs)]]
          ELSE @[i]]]

\* The blocks reachable from START_BLOCK.
RECURSIVE ReachFrom(_, _, _)
ReachFrom(blocks, frontier, seen) ==
    IF frontier = {}
    THEN seen
    ELSE LET next == UNION {SeqRange(Successors(At(blocks, b).terminator)) :
                              b \in frontier}
         IN ReachFrom(blocks, next \ (seen \cup frontier), seen \cup frontier)

\* CfgSimplifier::simplify and remove_dead_blocks, as far as the model
\* follows them: the blocks START_BLOCK does not reach are removed and the
\* remaining ones renumbered in order.
remove_dead_blocks(mir) ==
    LET live == ReachFrom(mir.blocks, {START_BLOCK}, {})
        new(b) == IF b = None THEN None
                  ELSE Cardinality({x \in live : x < b})
        keep == SelectSeq([i \in DOMAIN mir.blocks |-> i - 1], LAMBDA b : b \in live)
        fix(t) == [t EXCEPT !.targets = [j \in DOMAIN @ |-> new(@[j])],
                            !.dest_target = new(@),
                            !.unwind = new(@)]
    IN [mir EXCEPT !.blocks =
          [n \in DOMAIN keep |->
             [At(mir.blocks, keep[n]) EXCEPT !.terminator = fix(@)]]]

\* Mutant: a hit moves the body out of the cache.
get_foreign_mir_taking(cache, cstore, def_id) ==
    IF cache[def_id] # Nil
    THEN [mir |-> cache[def_id], foreign_mirs |-> [cache EXCEPT ![def_id] = Nil],
          consulted |-> FALSE]
    ELSE [mir |-> cstore[def_id],
          foreign_mirs |-> IF cstore[def_id] # Nil
                           THEN [cache EXCEPT ![def_id] = cstore[def_id]]
                           ELSE cache,
          consulted |-> TRUE]

\* Mutant: the crate store is asked whether or not the cache has the body.
get_foreign_mir_refetching(cache, cstore, def_id) ==
    [mir |-> cstore[def_id],
     foreign_mirs |-> IF cstore[def_id] # Nil
                      THEN [cache EXCEPT ![def_id] = cstore[def_id]]
                      ELSE cache,
     consulted |-> TRUE]

\* Mutant: a miss stores the body and answers None; only a hit answers it.
get_foreign_mir_late(cache, cstore, def_id) ==
    IF cache[def_id] # Nil
    THEN [mir |-> cache[def_id], foreign_mirs |-> cache, consulted |-> FALSE]
    ELSE [mir |-> Nil,
          foreign_mirs |-> IF cstore[def_id] # Nil
                           THEN [cache EXCEPT ![def_id] = cstore[def_id]]
                           ELSE cache,
          consulted |-> TRUE]

\* Inliner::get_foreign_mir: the body returned, the cache after the call,
\* and whether cstore.maybe_get_item_mir was called.
get_foreign_mir(cache, cstore, def_id) ==
    IF cache[def_id] # Nil
    THEN [mir |-> cache[def_id], foreign_mirs |-> cache, consulted |-> FALSE]
    ELSE [mir |-> cstore[def_id],
          foreign_mirs |-> IF cstore[def_id] # Nil
                           THEN [cache EXCEPT ![def_id] = cstore[def_id]]
                           ELSE cache,
          consulted |-> TRUE]

(***************************************************************************)
(* Callsites                                                               *)
(***************************************************************************)
\* CallSite; history is a history field: empty for a callsite collected at
\* the start of inline_scc; for one found by the rescan after inlining a
\* callsite c, the history of c followed by the callee and substs of c.
\* rejected is a history field too: empty until the loop of inline_scc has
\* passed over the callsite, then the callee bodies it was judged against,
\* one for each sweep that passed over it.  seen is a history field: whether
\* the sweep under way has examined the callsite.
CallSite(caller, term, bb, history) ==
    [caller |-> caller, callee |-> term.func.callee, substs |-> term.func.substs,
     bb |-> bb, location |-> term.source_info, history |-> history,
     rejected |-> <<>>, seen |-> FALSE]

Expanded(callsite) == [callee |-> callsite.callee, substs |-> callsite.substs]

\* "Only consider direct calls to functions"
is_direct_call(term) ==
    term.kind = "Call" /\ term.func.const /\ term.func.fn_def

\* The filter of the initial collection.
collect_filter(bb_data) ==
    ~bb_data.is_cleanup /\ is_direct_call(bb_data.terminator)

\* Mutant: the calls to the callee just inlined are kept too.
rescan_filter_any_callee(callsite, bb_data) == is_direct_call(bb_data.terminator)

\* The filter of the rescan of the appended blocks.
rescan_filter(callsite, bb_data) ==
    /\ is_direct_call(bb_data.terminator)
    /\ callsite.callee # bb_data.terminator.func.callee

RECURSIVE collect_callsites(_, _, _)
collect_callsites(def_id, mir, bb) ==
    IF bb >= Len(mir.blocks)
    THEN <<>>
    ELSE (IF collect_filter(At(mir.blocks, bb))
          THEN <<CallSite(def_id, At(mir.blocks, bb).terminator, bb, <<>>)>>
          ELSE <<>>)
         \o collect_callsites(def_id, mir, bb + 1)

RECURSIVE rescan_callsites(_, _, _)
rescan_callsites(callsite, caller_mir, bb) ==
    IF bb >= Len(caller_mir.blocks)
    THEN <<>>
    ELSE (IF rescan_filter(callsite, At(caller_mir.blocks, bb))
          THEN <<CallSite(callsite.caller, At(caller_mir.blocks, bb).terminator, bb,
                          Append(callsite.history, Expanded(callsite)))>>
          ELSE <<>>)
         \o rescan_callsites(callsite, caller_mir, bb + 1)

\* Vec::swap, Vec::remove, Vec::swap_remove on 0-based positions
swap(v, a, b) == [v EXCEPT ![a + 1] = v[b + 1], ![b + 1] = v[a + 1]]

remove(v, a) == SubSeq(v, 1, a) \o SubSeq(v, a + 2, Len(v))

swap_remove(v, a) ==
    IF a + 1 = Len(v)
    THEN SubSeq(v, 1, a)
    ELSE SubSeq([v EXCEPT ![a + 1] = v[Len(v)]], 1, Len(v) - 1)

\* Mutant: csi is not decremented, the callsite after the inlined one goes.
remove_callsite_after(v, csi, scc_len) ==
    IF csi + 1 < Len(v) THEN remove(v, csi + 1) ELSE v

\* Mutant: swap_remove whatever the size of the component.
remove_callsite_swapping(v, csi, scc_len) == swap_remove(v, csi)

remove_callsite(v, csi, scc_len) ==
    IF scc_len = 1 THEN swap_remove(v, csi) ELSE remove(v, csi)

(***************************************************************************)
(* The programs the pass is run on.  f and g are functions of the crate    *)
(* being compiled, h and k come from another crate.  Every function takes  *)
(* one argument.                                                           *)
(***************************************************************************)
Local == {"f", "g"}
Foreign == {"h", "k"}
Fns == Local \cup Foreign

si0 == SourceInfo(0, "sp")

Mir(blocks, vars, temps, scopes, promoted, upvars) ==
    [blocks |-> blocks, var_decls |-> vars, temp_decls |-> temps,
     visibility_scopes |-> scopes, promoted |-> promoted, upvar_decls |-> upvars,
     span |-> "fn"]

VarDecl(ty, sc, sp) == [ty |-> ty, source_info |-> SourceInfo(sc, sp)]
TempDecl(ty) == [ty |-> ty]
Scope(parent, sp) == [parent_scope |-> parent, span |-> sp]
RootScope == Scope(None, "sp")

Fn(c) == FnConst(c, <<"u8">>, "Rust")

\* fn id<T>(x: T) -> T { x }
Leaf ==
    Mir(<<BasicBlockData(<<Assign(LvTemp(0), RvUse(Consume(LvArg(0))), si0),
                           Assign(ReturnPointer, RvUse(Consume(LvTemp(0))), si0)>>,
                         Goto(1), FALSE),
          BasicBlockData(<<>>, Return, FALSE)>>,
        <<>>, <<TempDecl("T")>>, <<RootScope>>, <<>>, 0)

\* One block; a variable in a nested scope, a promoted constant, spans the
\* codemap does not know.
LeafScoped ==
    Mir(<<BasicBlockData(
             <<StorageLive(LvVar(0), SourceInfo(1, "sp")),
               Assign(LvVar(0), RvUse(ConstPromoted(0)), SourceInfo(2, "invalid")),
               Assign(ReturnPointer, RvUse(Consume(LvVar(0))), SourceInfo(2, "sp")),
               StorageDead(LvVar(0), SourceInfo(1, "sp"))>>,
             [Return EXCEPT !.source_info = SourceInfo(1, "invalid")], FALSE)>>,
        <<VarDecl("u8", 1, "invalid")>>, <<>>,
        <<Scope(None, "invalid"), Scope(0, "sp"), Scope(1, "sp")>>, <<"p0">>, 0)

\* Drops without an unwind edge outside cleanup, a cleanup chain ending in
\* Resume, an argument used as an lvalue.
LeafDrop ==
    Mir(<<BasicBlockData(<<Assign(LvTemp(0), RvUse(Consume(LvArg(0))), si0),
                           Assign(LvVar(0), RvUse(Consume(LvTemp(0))), si0)>>,
                         Drop(LvVar(0), 1, None), FALSE),
          BasicBlockData(<<>>, DropAndReplace(Projection(LvArg(0), ElemField), 2, 3),
                         FALSE),
          BasicBlockData(<<>>, TermAssert(5, None), FALSE),
          BasicBlockData(<<>>, Drop(LvVar(0), 4, None), TRUE),
          BasicBlockData(<<>>, Resume, TRUE),
          BasicBlockData(<<>>, Return, FALSE)>>,
        <<VarDecl("Box", 0, "sp")>>, <<TempDecl("Box")>>, <<RootScope>>, <<>>, 0)

CallSimple(c) ==
    Mir(<<BasicBlockData(<<>>, Call(Fn(c), <<Consume(LvArg(0))>>, LvTemp(0), 1, None),
                         FALSE),
          BasicBlockData(<<Assign(ReturnPointer, RvUse(Consume(LvTemp(0))), si0)>>,
                         Return, FALSE)>>,
        <<>>, <<TempDecl("u8")>>, <<RootScope>>, <<>>, 0)

\* *v = c(v), with a cleanup edge
CallCleanup(c) ==
    Mir(<<BasicBlockData(<<>>, Call(Fn(c), <<Consume(LvVar(0))>>, Deref(LvVar(0)), 1, 2),
                         FALSE),
          BasicBlockData(<<>>, Return, FALSE),
          BasicBlockData(<<>>, Resume, TRUE)>>,
        <<VarDecl("Box", 1, "sp")>>, <<>>, <<RootScope, Scope(0, "sp")>>, <<>>, 0)

\* A direct call in a cleanup block.
CallInCleanup(c) ==
    Mir(<<BasicBlockData(<<>>, Drop(LvVar(0), 1, 2), FALSE),
          BasicBlockData(<<>>, Return, FALSE),
          BasicBlockData(<<>>, Call(Fn(c), <<Consume(LvVar(0))>>, LvTemp(0), 3, None),
                         TRUE),
          BasicBlockData(<<>>, Resume, TRUE)>>,
        <<VarDecl("Box", 0, "sp")>>, <<TempDecl("u8")>>, <<RootScope>>, <<>>, 0)

\* t = c(const); v[w] = d(t)
TwoCalls(c, d) ==
    Mir(<<BasicBlockData(<<>>, Call(Fn(c), <<Constant>>, LvTemp(0), 1, None), FALSE),
          BasicBlockData(<<>>,
             Call(FnConst(d, <<>>, "Rust"), <<Consume(LvTemp(0))>>,
                  Projection(LvVar(0), ElemIndex(Consume(LvVar(1)))), 2, None),
             FALSE),
          BasicBlockData(<<>>, Return, FALSE)>>,
        <<VarDecl("big", 0, "sp"), VarDecl("usize", 0, "sp")>>, <<TempDecl("u8")>>,
        <<RootScope>>, <<>>, 0)

DivergeZero == Mir(<<BasicBlockData(<<>>, Unreachable, FALSE)>>,
                   <<>>, <<>>, <<RootScope>>, <<>>, 0)

DivergeCost ==
    Mir(<<BasicBlockData(<<Assign(LvTemp(0), RvUse(Constant), si0)>>,
                         Unreachable, FALSE)>>,
        <<>>, <<TempDecl("usize")>>, <<RootScope>>, <<>>, 0)

\* c(const) with no destination
DivergeCall(c) ==
    Mir(<<BasicBlockData(<<>>, CallDiverging(Fn(c), <<Constant>>, None), FALSE)>>,
        <<>>, <<>>, <<RootScope>>, <<>>, 0)

Indirect ==
    Mir(<<BasicBlockData(<<>>, Call(FnIndirect, <<Constant>>, ReturnPointer, 1, None),
                         FALSE),
          BasicBlockData(<<>>, Return, FALSE)>>,
        <<>>, <<>>, <<RootScope>>, <<>>, 0)

Branch ==
    Mir(<<BasicBlockData(<<>>, If(1, 2), FALSE),
          BasicBlockData(<<Nop(si0)>>, Goto(3), FALSE),
          BasicBlockData(<<>>, SwitchInt(<<3, 0>>), FALSE),
          BasicBlockData(<<Assign(ReturnPointer, RvUse(Constant), si0)>>, Return,
                         FALSE)>>,
        <<>>, <<>>, <<RootScope>>, <<>>, 0)

Huge == [Leaf EXCEPT !.var_decls = <<VarDecl("huge", 0, "sp")>>]

Closure == [Leaf EXCEPT !.upvar_decls = 1]

\* The body of the lang item box_free
BoxFree ==
    Mir(<<BasicBlockData(<<>>, Drop(Deref(LvArg(0)), 1, None), FALSE),
          BasicBlockData(<<>>, Return, FALSE)>>,
        <<>>, <<>>, <<RootScope>>, <<>>, 0)

BodiesF ==
    {CallSimple(c) : c \in Fns}
    \cup {CallCleanup(c) : c \in {"g", "h", "k"}}
    \cup {TwoCalls(c, d) : c \in {"g", "h"}, d \in {"g", "h", "k"}}
    \cup {DivergeCall("g"), Indirect}

BodiesG ==
    {Leaf, LeafScoped, LeafDrop, Branch, DivergeZero, Huge, Closure,
     CallSimple("f"), CallSimple("h"), CallInCleanup("h"), CallCleanup("k"),
     TwoCalls("f", "h")}

\* Nil: the crate store ships no MIR for the function.
BodiesH == {Leaf, LeafScoped, CallSimple("k"), CallInCleanup("k"), DivergeCost, Nil}

Attr(inline, cold, trait_item) ==
    [inline |-> inline, cold |-> cold, trait_item |-> trait_item]

\* What tcx.get_attrs and tcx.trait_of_item answer for each function.
AllHint ==
    [f |-> Attr("Hint", FALSE, FALSE), g |-> Attr("Hint", FALSE, FALSE),
     h |-> Attr("Hint", FALSE, FALSE), k |-> Attr("Hint", FALSE, FALSE)]
NeverAlways ==
    [f |-> Attr("None", FALSE, FALSE), g |-> Attr("None", FALSE, FALSE),
     h |-> Attr("Never", FALSE, FALSE), k |-> Attr("Always", FALSE, FALSE)]
ColdOnes ==
    [f |-> Attr("None", FALSE, FALSE), g |-> Attr("Always", TRUE, FALSE),
     h |-> Attr("None", TRUE, FALSE), k |-> Attr("Hint", FALSE, FALSE)]
TraitItem ==
    [f |-> Attr("Hint", FALSE, FALSE), g |-> Attr("None", FALSE, TRUE),
     h |-> Attr("None", FALSE, FALSE), k |-> Attr("None", FALSE, FALSE)]

\* The attributes of the program and the body the crate store holds for k.
AttrsAndK ==
    {<<AllHint, Leaf>>, <<AllHint, CallSimple("h")>>, <<AllHint, BoxFree>>,
     <<NeverAlways, LeafDrop>>, <<NeverAlways, CallSimple("h")>>,
     <<ColdOnes, Leaf>>, <<TraitItem, Leaf>>}

\* The direct calls of a body: the edges callgraph::CallGraph::build gives
\* its node.
Callees(mir) ==
    {mir.blocks[b].terminator.func.callee :
        b \in {x \in DOMAIN mir.blocks : is_direct_call(mir.blocks[x].terminator)}}

\* scc_iter: the strongly connected components, each as a slice of nodes.
\* Foreign functions have no MIR in the map and so no outgoing edge.
Sccs(m) ==
    IF "g" \in Callees(m["f"]) /\ "f" \in Callees(m["g"])
    THEN {<<"f", "g">>, <<"g", "f">>}
    ELSE {<<"f">>, <<"g">>} \cup (IF Callees(m["f"]) = {} THEN {<<"h">>} ELSE {})

\* box_free is called with a box, a raw pointer or a reference.
BoxFreeCallsOk(mir) ==
    \A b \in DOMAIN mir.blocks :
       LET t == mir.blocks[b].terminator
       IN is_direct_call(t) /\ t.func.callee = "k" =>
             /\ t.args[1].ok = "Consume"
             /\ OperandTy(mir, t.args[1]) \in {"Box", "ptr", "ref"}

(***************************************************************************)
(* State                                                                   *)
(***************************************************************************)
VARIABLES
    map,                \* MirMap: the bodies of the functions of this crate
    tcx,                \* [attrs, cstore, box_free_fn]
    foreign_mirs,       \* Inliner.foreign_mirs
    scc,                \* the argument scc of inline_scc
    callsites, in_scc, inlined_into,
    first_call_in_scc, i,
    csi, local_change, changed,
    start,              \* caller_mir.basic_blocks().len() before inline_call
    integrator,         \* the Integrator of the last integration
    pc,                 \* where inline_scc stands
    policy              \* the call of should_inline under SpecPolicy

vars == <<map, tcx, foreign_mirs, scc, callsites, in_scc, inlined_into,
          first_call_in_scc, i, csi, local_change, changed, start, integrator,
          pc, policy>>

is_local(def_id) == def_id \in Local

callee_attrs(def_id) ==
    [inline |-> tcx.attrs[def_id].inline, cold |-> tcx.attrs[def_id].cold,
     trait_item |-> tcx.attrs[def_id].trait_item, local |-> is_local(def_id)]

Init ==
    /\ map \in [Local -> BodiesF \cup BodiesG]
    /\ map["f"] \in BodiesF
    /\ map["g"] \in BodiesG
    /\ \E ak \in AttrsAndK, ch \in BodiesH :
          tcx = [attrs |-> ak[1], cstore |-> [h |-> ch, k |-> ak[2]],
                 box_free_fn |-> IF ak[2] = BoxFree THEN "k" ELSE "none"]
    /\ tcx.box_free_fn = "k" =>
          \A m \in {map["f"], map["g"], tcx.cstore["h"]} \ {Nil} : BoxFreeCallsOk(m)
    /\ foreign_mirs = [d \in Foreign |-> Nil]
    /\ scc \in Sccs(map)
    /\ callsites = <<>>
    /\ in_scc = {}
    /\ inlined_into = {}
    /\ first_call_in_scc = 0
    /\ i = 0
    /\ csi = 0
    /\ local_change = FALSE
    /\ changed = FALSE
    /\ start = 0
    /\ integrator = Nil
    /\ pc = "collect"
    /\ policy = Nil

(***************************************************************************)
(* Inliner::inline_scc                                                     *)
(***************************************************************************)
\* The callsites of the nodes scc[n..]: functions of other crates are not
\* inspected.
RECURSIVE collect_scc(_, _)
collect_scc(nodes, m) ==
    IF nodes = <<>>
    THEN <<>>
    ELSE (IF is_local(nodes[1])
          THEN collect_callsites(nodes[1], m[nodes[1]], 0)
          ELSE <<>>)
         \o collect_scc(Tail(nodes), m)

Collect ==
    /\ pc = "collect"
    /\ callsites' = collect_scc(scc, map)
    /\ in_scc' = {d \in SeqRange(scc) : is_local(d)}
    /\ first_call_in_scc' = Len(callsites')
    /\ i' = 0
    /\ pc' = "reorder"
    /\ UNCHANGED <<map, tcx, foreign_mirs, scc, inlined_into, csi, local_change,
                   changed, start, integrator, policy>>

\* Mutant: the callsite is copied to the end of the range, not swapped.
reorder_step_copying(st) ==
    IF At(st.callsites, st.i).caller \in st.in_scc
    THEN [st EXCEPT !.first_call_in_scc = @ - 1,
                    !.callsites = [@ EXCEPT ![st.first_call_in_scc] =
                                                 st.callsites[st.i + 1]]]
    ELSE [st EXCEPT !.i = @ + 1]

\* One iteration of the loop that moves the callsites in the SCC to the end.
reorder_step(st) ==
    IF At(st.callsites, st.i).caller \in st.in_scc
    THEN [st EXCEPT !.first_call_in_scc = @ - 1,
                    !.callsites = swap(@, st.i, st.first_call_in_scc - 1)]
    ELSE [st EXCEPT !.i = @ + 1]

ReorderStep ==
    /\ pc = "reorder"
    /\ i < first_call_in_scc
    /\ LET st == reorder_step([callsites |-> callsites, in_scc |-> in_scc, i |-> i,
                               first_call_in_scc |-> first_call_in_scc])
       IN /\ callsites' = st.callsites
          /\ i' = st.i
          /\ first_call_in_scc' = st.first_call_in_scc
    /\ UNCHANGED <<map, tcx, foreign_mirs, scc, in_scc, inlined_into, csi,
                   local_change, changed, start, integrator, pc, policy>>

ReorderDone ==
    /\ pc = "reorder"
    /\ ~(i < first_call_in_scc)
    /\ pc' = "loop"
    /\ UNCHANGED <<map, tcx, foreign_mirs, scc, callsites, in_scc, inlined_into,
                   first_call_in_scc, i, csi, local_change, changed, start,
                   integrator, policy>>

\* loop { local_change = false; let mut csi = 0; ...
\* No callsite has been examined by the sweep that begins.
SweepStart ==
    /\ pc = "loop"
    /\ local_change' = FALSE
    /\ csi' = 0
    /\ callsites' = [n \in DOMAIN callsites |-> [callsites[n] EXCEPT !.seen = FALSE]]
    /\ pc' = "sweep"
    /\ UNCHANGED <<map, tcx, foreign_mirs, scc, in_scc, inlined_into,
                   first_call_in_scc, i, changed, start, integrator, policy>>

\* The callsite the sweep stands at, and what the lookup of its callee gives.
callsite_now == At(callsites, csi)

Lookup ==
    IF is_local(callsite_now.callee)
    THEN [mir |-> map[callsite_now.callee], foreign_mirs |-> foreign_mirs,
          consulted |-> FALSE]
    ELSE get_foreign_mir(foreign_mirs, tcx.cstore, callsite_now.callee)

Admitted ==
    /\ Lookup.mir # Nil
    /\ should_inline(callee_attrs(callsite_now.callee), callsite_now.substs, Lookup.mir)

Attempt ==
    inline_call(callsite_now, map[callsite_now.caller],
                SubstMir(Lookup.mir, callsite_now.substs), tcx.box_free_fn)

InSweep == pc = "sweep" /\ csi < Len(callsites)

\* continue: the callsite stays where it is; its history field records the
\* callee body the loop has just passed over.
passed_over ==
    [callsites EXCEPT ![csi + 1].rejected = Append(@, Lookup.mir),
                      ![csi + 1].seen = TRUE]

\* The callee has no MIR: continue.
NoCalleeMir ==
    /\ InSweep
    /\ Lookup.mir = Nil
    /\ csi' = csi + 1
    /\ foreign_mirs' = Lookup.foreign_mirs
    /\ callsites' = passed_over
    /\ UNCHANGED <<map, tcx, scc, in_scc, inlined_into, first_call_in_scc,
                   i, local_change, changed, start, integrator, pc, policy>>

\* should_inline says no: continue.
Rejected ==
    /\ InSweep
    /\ Lookup.mir # Nil
    /\ ~Admitted
    /\ csi' = csi + 1
    /\ foreign_mirs' = Lookup.foreign_mirs
    /\ callsites' = passed_over
    /\ UNCHANGED <<map, tcx, scc, in_scc, inlined_into, first_call_in_scc,
                   i, local_change, changed, start, integrator, pc, policy>>

\* inline_call returns false: continue.
Refused ==
    /\ InSweep
    /\ Admitted
    /\ ~Attempt.ok
    /\ csi' = csi + 1
    /\ foreign_mirs' = Lookup.foreign_mirs
    /\ start' = Len(map[callsite_now.caller].blocks)
    /\ map' = [map EXCEPT ![callsite_now.caller] = Attempt.mir]
    /\ callsites' = passed_over
    /\ UNCHANGED <<tcx, scc, in_scc, inlined_into, first_call_in_scc,
                   i, local_change, changed, integrator, pc, policy>>

\* inline_call returns true: the caller is recorded, the appended blocks are
\* rescanned, the callsite is removed.
Accepted ==
    /\ InSweep
    /\ Admitted
    /\ Attempt.ok
    /\ Len(callsite_now.history) < MaxDepth
    /\ foreign_mirs' = Lookup.foreign_mirs
    /\ start' = Len(map[callsite_now.caller].blocks)
    /\ map' = [map EXCEPT ![callsite_now.caller] = Attempt.mir]
    /\ integrator' = Attempt.integrator
    /\ IF Attempt.ice
       THEN /\ pc' = "ice"
            /\ UNCHANGED <<callsites, inlined_into, csi, local_change, changed>>
       ELSE /\ inlined_into' = inlined_into \cup {callsite_now.caller}
            /\ callsites' =
                  remove_callsite(
                     callsites \o rescan_callsites(callsite_now, Attempt.mir, start'),
                     csi, Len(scc))
            /\ csi' = csi
            /\ local_change' = TRUE
            /\ changed' = TRUE
            /\ pc' = pc
    /\ UNCHANGED <<tcx, scc, in_scc, first_call_in_scc, i, policy>>

\* The sweep is over: break if nothing changed, else sweep again.
SweepEnd ==
    /\ pc = "sweep"
    /\ ~(csi < Len(callsites))
    /\ pc' = IF ~local_change THEN "simplify" ELSE "loop"
    /\ UNCHANGED <<map, tcx, foreign_mirs, scc, callsites, in_scc, inlined_into,
                   first_call_in_scc, i, csi, local_change, changed, start,
                   integrator, policy>>

\* "Simplify functions we inlined into."
Simplify ==
    /\ pc = "simplify"
    /\ map' = [d \in Local |->
                 IF d \in inlined_into THEN remove_dead_blocks(map[d]) ELSE map[d]]
    /\ pc' = "done"
    /\ UNCHANGED <<tcx, foreign_mirs, scc, callsites, in_scc, inlined_into,
                   first_call_in_scc, i, csi, local_change, changed, start,
                   integrator, policy>>

Next ==
    \/ Collect
    \/ ReorderStep
    \/ ReorderDone
    \/ SweepStart
    \/ NoCalleeMir
    \/ Rejected
    \/ Refused
    \/ Accepted
    \/ SweepEnd
    \/ Simplify

Spec == Init /\ [][Next]_vars

\* inline_scc is straight-line code of one thread: a step that can be taken
\* is taken.
FairSpec == Spec /\ WF_vars(Next)

(***************************************************************************)
(* Inliner::should_inline as a function of its inputs                      *)
(***************************************************************************)
CallIntrinsic ==
    [CallSimple("h") EXCEPT !.blocks[1].terminator.func.abi = "RustIntrinsic"]

\* A call through a constant of function pointer type.
CallFnPtrConst == [CallSimple("h") EXCEPT !.blocks[1].terminator.func = FnPtrConst]

PolicyBodies ==
    {Leaf, LeafScoped, LeafDrop, CallSimple("h"), CallCleanup("h"),
     CallInCleanup("h"), TwoCalls("g", "h"), DivergeZero, DivergeCost,
     DivergeCall("h"), Indirect, Branch, Huge, Closure, BoxFree, CallIntrinsic,
     CallFnPtrConst}

PolicySubsts == {<<>>, <<"u8">>, <<"Box">>, <<"T">>}

InitPolicy ==
    /\ map = [d \in Local |-> Indirect]
    /\ tcx = [attrs |-> AllHint, cstore |-> [d \in Foreign |-> Nil],
              box_free_fn |-> "none"]
    /\ foreign_mirs = [d \in Foreign |-> Nil]
    /\ scc = <<>>
    /\ callsites = <<>>
    /\ in_scc = {}
    /\ inlined_into = {}
    /\ first_call_in_scc = 0
    /\ i = 0
    /\ csi = 0
    /\ local_change = FALSE
    /\ changed = FALSE
    /\ start = 0
    /\ integrator = Nil
    /\ pc = "should_inline"
    /\ \E inline \in {"Always", "Never", "Hint", "None"}, cold \in BOOLEAN,
          trait_item \in BOOLEAN, local \in BOOLEAN,
          substs \in PolicySubsts, callee_mir \in PolicyBodies :
          policy = [a |-> [inline |-> inline, cold |-> cold,
                           trait_item |-> trait_item, local |-> local],
                    substs |-> substs, callee_mir |-> callee_mir, called |-> FALSE,
                    admit |-> FALSE, cost |-> 0]

\* One call of should_inline; cost is the value of the variable cost at the
\* final decision.
Decide ==
    /\ pc = "should_inline"
    /\ ~policy.called
    /\ policy' = [policy EXCEPT
          !.called = TRUE,
          !.admit = should_inline(policy.a, policy.substs, policy.callee_mir),
          !.cost = cost_and_threshold(policy.a, policy.substs, policy.callee_mir).cost]
    /\ UNCHANGED <<map, tcx, foreign_mirs, scc, callsites, in_scc, inlined_into,
                   first_call_in_scc, i, csi, local_change, changed, start,
                   integrator, pc>>

NextPolicy == Decide

SpecPolicy == InitPolicy /\ [][NextPolicy]_vars

(***************************************************************************)
(* inline_call on its own: one call, over the destinations and arguments a *)
(* Call terminator can carry.                                              *)
(***************************************************************************)
\* The callee reads and writes a static, takes a reference to its return
\* slot and writes a field of it; it has two variables, two temporaries and
\* two promoted constants.
StaticUser ==
    Mir(<<BasicBlockData(
             <<Assign(LvStatic, RvUse(Consume(LvArg(0))), si0),
               Assign(Projection(ReturnPointer, ElemField), RvUse(Consume(LvStatic)),
                      si0),
               Assign(LvTemp(0), RvRef(ReturnPointer), si0),
               Assign(LvVar(0), RvUse(ConstPromoted(0)), si0),
               Assign(LvVar(1), RvUse(ConstPromoted(1)), si0),
               Assign(LvTemp(1), RvUse(Consume(LvVar(0))), si0),
               Assign(ReturnPointer, RvUse(Consume(Deref(LvArg(0)))), si0)>>,
             Return, FALSE)>>,
        <<VarDecl("u8", 0, "sp"), VarDecl("usize", 0, "sp")>>,
        <<TempDecl("ref"), TempDecl("u8")>>, <<RootScope>>, <<"p0", "p1">>, 0)

InlineBases == {LvVar(0), LvTemp(0), LvStatic}

InlineElems == {ElemDeref, ElemField, ElemIndex(Consume(LvVar(1)))}

\* The destinations: a base under at most two projections.
InlineDests ==
    InlineBases
    \cup {Projection(b, e) : b \in InlineBases, e \in InlineElems}
    \cup {Projection(Projection(b, e), d) : b \in InlineBases,
                                            e \in InlineElems, d \in InlineElems}

InlineArgs ==
    {Constant, Consume(LvTemp(0)), Consume(LvVar(0)), Consume(Deref(LvVar(0))),
     Consume(LvStatic), Consume(LvVar(2))}

InlineBodies == {Leaf, LeafScoped, LeafDrop, CallSimple("h"), StaticUser, BoxFree}

\* dest = g(arg); return
InlineCaller(arg, dest) ==
    Mir(<<BasicBlockData(<<Assign(LvVar(1), RvUse(Constant), si0)>>,
                         Call(Fn("g"), <<arg>>, dest, 1, None), FALSE),
          BasicBlockData(<<>>, Return, FALSE)>>,
        <<VarDecl("big", 0, "sp"), VarDecl("usize", 0, "sp"), VarDecl("Box", 0, "sp")>>,
        <<TempDecl("u8")>>, <<RootScope>>, <<>>, 0)

InitInline ==
    /\ \E arg \in InlineArgs, dest \in InlineDests, callee_mir \in InlineBodies :
          /\ map = [f |-> InlineCaller(arg, dest), g |-> callee_mir]
          /\ tcx = [attrs |-> AllHint, cstore |-> [d \in Foreign |-> Nil],
                    box_free_fn |-> IF callee_mir = BoxFree THEN "g" ELSE "none"]
          /\ callee_mir = BoxFree => arg = Consume(LvVar(2))
    /\ foreign_mirs = [d \in Foreign |-> Nil]
    /\ scc = <<"f">>
    /\ callsites = <<CallSite("f", map["f"].blocks[1].terminator, 0, <<>>)>>
    /\ in_scc = {"f"}
    /\ inlined_into = {}
    /\ first_call_in_scc = 0
    /\ i = 0
    /\ csi = 0
    /\ local_change = FALSE
    /\ changed = FALSE
    /\ start = 0
    /\ integrator = Nil
    /\ pc = "inline_call"
    /\ policy = Nil

\* One call of inline_call.
Integrate ==
    /\ pc = "inline_call"
    /\ start' = Len(map[callsite_now.caller].blocks)
    /\ map' = [map EXCEPT ![callsite_now.caller] = Attempt.mir]
    /\ integrator' = Attempt.integrator
    /\ pc' = IF Attempt.ice THEN "ice" ELSE IF Attempt.ok THEN "inlined" ELSE "refused"
    /\ UNCHANGED <<tcx, foreign_mirs, scc, callsites, in_scc, inlined_into,
                   first_call_in_scc, i, csi, local_change, changed, policy>>

NextInline == Integrate

SpecInline == InitInline /\ [][NextInline]_vars

(***************************************************************************)
(* Properties                                                              *)
(***************************************************************************)
BlocksOf(d) == map[d].blocks
BlockIds(d) == Idxs(BlocksOf(d))

\* The caller of the last integration and the blocks that integration
\* appended to it.
LastCaller == integrator.callsite.caller
Appended == {b \in BlockIds(LastCaller) : b >= integrator.block_idx}
AfterInlining == pc \in {"sweep", "loop", "simplify"} /\ integrator # Nil

\* The locals an lvalue, an operand, a statement, a terminator mention, as
\* pairs <<kind, index>>.
RECURSIVE LvLocals(_)
RECURSIVE OpLocals(_)
LvLocals(lv) ==
    CASE lv.lk \in {"Var", "Temp", "Arg", "Bug"} -> {<<lv.lk, lv.idx>>}
      [] lv.lk = "Projection" ->
           LvLocals(lv.base)
           \cup (IF lv.elem.ek = "Index" THEN OpLocals(lv.elem.op) ELSE {})
      [] OTHER -> {}

OpLocals(op) == IF op.ok = "Consume" THEN LvLocals(op.lv) ELSE {}

RvLocals(rv) ==
    CASE rv.rk = "Ref" -> LvLocals(rv.lv)
      [] OTHER -> OpLocals(rv.op)

StmtLocals(st) ==
    CASE st.kind = "Assign" -> LvLocals(st.lv) \cup RvLocals(st.rv)
      [] st.kind \in {"StorageLive", "StorageDead"} -> LvLocals(st.lv)
      [] OTHER -> {}

TermLocals(t) ==
    UNION {OpLocals(t.args[n]) : n \in DOMAIN t.args}
    \cup (IF t.dest_some THEN LvLocals(t.dest_lv) ELSE {})
    \cup (IF IsDropKind(t) THEN LvLocals(t.location) ELSE {})

BlockLocals(blk) ==
    UNION {StmtLocals(blk.statements[n]) : n \in DOMAIN blk.statements}
    \cup TermLocals(blk.terminator)

MirLocals(mir) == UNION {BlockLocals(mir.blocks[b]) : b \in DOMAIN mir.blocks}

\* The scopes the statements, terminators and variable declarations use.
BlockScopes(blk) ==
    {blk.statements[n].source_info.scope : n \in DOMAIN blk.statements}
    \cup {blk.terminator.source_info.scope}

MirScopes(mir) ==
    UNION {BlockScopes(mir.blocks[b]) : b \in DOMAIN mir.blocks}
    \cup {mir.var_decls[n].source_info.scope : n \in DOMAIN mir.var_decls}

\* Following parent_scope from s reaches a root without meeting a scope twice.
RECURSIVE ReachesRoot(_, _, _)
ReachesRoot(scopes, s, seen) ==
    IF At(scopes, s).parent_scope = None
    THEN TRUE
    ELSE IF At(scopes, s).parent_scope \in seen \cup {s}
            \/ At(scopes, s).parent_scope \notin Idxs(scopes)
         THEN FALSE
         ELSE ReachesRoot(scopes, At(scopes, s).parent_scope, seen \cup {s})

\* C1: after every accepted inlining, every block index a terminator of a
\* function names (successor, return target, unwind or cleanup target) is
\* less than the function's block count.
BlockTargetsInRange ==
    \A d \in Local : \A b \in BlockIds(d) :
       \A x \in SeqRange(Successors(At(BlocksOf(d), b).terminator)) :
          x \in BlockIds(d)

\* An inlining was accepted whose appended blocks hold an edge relocated by
\* the offset, an edge to the return target and an edge to the cleanup block
\* of the call.
BlockTargetsWitness ==
    /\ AfterInlining
    /\ integrator.cleanup_block # None
    /\ \E b \in Appended :
          \E x \in SeqRange(At(BlocksOf(LastCaller), b).terminator.targets) :
             x > integrator.block_idx
    /\ \E b \in Appended :
          At(BlocksOf(LastCaller), b).terminator = 
             [Goto(integrator.return_block) EXCEPT
                 !.source_info = At(BlocksOf(LastCaller), b).terminator.source_info]
    /\ \E b \in Appended :
          At(BlocksOf(LastCaller), b).terminator.unwind = integrator.cleanup_block

\* C2 (as claimed): every successor of a cleanup block is a cleanup block, in
\* every function, after every inlining inline_scc performs.
CleanupReachability ==
    \A d \in Local : \A b \in BlockIds(d) :
       At(BlocksOf(d), b).is_cleanup =>
          \A x \in SeqRange(Successors(At(BlocksOf(d), b).terminator)) :
             x \in BlockIds(d) /\ At(BlocksOf(d), x).is_cleanup

\* C3: in a block that is not a cleanup block, a populated unwind edge of
\* Drop or DropAndReplace and a populated cleanup edge of Call or Assert
\* lead to a cleanup block.
UnwindEdgesToCleanup ==
    \A d \in Local : \A b \in BlockIds(d) :
       LET blk == At(BlocksOf(d), b)
       IN (/\ ~blk.is_cleanup
           /\ HasUnwindEdge(blk.terminator)
           /\ blk.terminator.unwind # None)
          => /\ blk.terminator.unwind \in BlockIds(d)
             /\ At(BlocksOf(d), blk.terminator.unwind).is_cleanup

\* An appended block outside cleanup took the cleanup edge of the call for
\* its absent edge, and another one kept its own, relocated edge.
UnwindEdgesWitness ==
    /\ AfterInlining
    /\ integrator.cleanup_block # None
    /\ \E b \in Appended :
          LET blk == At(BlocksOf(LastCaller), b)
          IN /\ ~blk.is_cleanup
             /\ HasUnwindEdge(blk.terminator)
             /\ blk.terminator.unwind = integrator.cleanup_block
    /\ \E b \in Appended :
          LET blk == At(BlocksOf(LastCaller), b)
          IN /\ ~blk.is_cleanup
             /\ HasUnwindEdge(blk.terminator)
             /\ blk.terminator.unwind >= integrator.block_idx

\* C4: every Var and Temp index in a function refers to a slot of its
\* tables, and the blocks an integration appended mention no Arg but those
\* of the destination of the call (the callee's own were replaced).
LocalsExist ==
    /\ \A d \in Local : \A l \in MirLocals(map[d]) :
          /\ l[1] = "Var" => l[2] \in Idxs(map[d].var_decls)
          /\ l[1] = "Temp" => l[2] \in Idxs(map[d].temp_decls)
          /\ l[1] # "Bug"
    /\ AfterInlining =>
          \A b \in Appended :
             \A l \in BlockLocals(At(BlocksOf(LastCaller), b)) :
                l[1] = "Arg" => l \in LvLocals(integrator.destination)

\* A callee was integrated that had a var, a temp and uses of its argument,
\* into a caller that already had a var and a temp.
LocalsWitness ==
    /\ AfterInlining
    /\ Len(integrator.var_map) > 0 /\ integrator.var_map[1] > 0
    /\ Len(integrator.tmp_map) > 0 /\ integrator.tmp_map[1] > 0
    /\ <<"Var", integrator.var_map[1]>> \in
          UNION {BlockLocals(At(BlocksOf(LastCaller), b)) : b \in Appended}
    /\ <<"Temp", integrator.tmp_map[1]>> \in
          UNION {BlockLocals(At(BlocksOf(LastCaller), b)) : b \in Appended}
    /\ Projection(integrator.args[1].lv, ElemField) \in
          {At(BlocksOf(LastCaller), b).terminator.location : b \in Appended}

\* C5: every scope a function uses (statements, terminators, variable
\* declarations, parent_scope) is a scope of the function, and the parent
\* links lead from every scope to a root without a cycle.
ScopesExistAcyclic ==
    \A d \in Local :
       /\ MirScopes(map[d]) \subseteq Idxs(map[d].visibility_scopes)
       /\ \A sc \in Idxs(map[d].visibility_scopes) :
             ReachesRoot(map[d].visibility_scopes, sc, {})

\* A callee with nested scopes was integrated and its innermost scope is
\* used by an appended statement.
ScopesWitness ==
    /\ AfterInlining
    /\ Len(integrator.scope_map) >= 3
    /\ \E b \in Appended :
          integrator.scope_map[3] \in BlockScopes(At(BlocksOf(LastCaller), b))
    /\ At(map[LastCaller].visibility_scopes, integrator.scope_map[3]).parent_scope
          # None

\* C6: an accepted inlining only appends blocks.  Every block the caller had
\* keeps its index and, but for the block of the callsite, its contents; the
\* block of the callsite keeps its statements as a prefix and ends in Goto to
\* the first appended block, whose index is the block count before the
\* append and which is the copy of the callee's entry block.
AcceptedStep == pc = "sweep" /\ map' # map

OnlyAppendsBlocks ==
    [][AcceptedStep =>
         LET c == callsite_now
             old == map[c.caller].blocks
             new == map'[c.caller].blocks
             callee == Lookup.mir.blocks
         IN /\ Len(new) = Len(old) + Len(callee)
            /\ \A b \in DOMAIN old :
                  IF b = c.bb + 1
                  THEN /\ new[b].terminator.kind = "Goto"
                       /\ new[b].terminator.targets = <<Len(old)>>
                       /\ new[b].is_cleanup = old[b].is_cleanup
                       /\ SubSeq(new[b].statements, 1, Len(old[b].statements))
                             = old[b].statements
                  ELSE new[b] = old[b]
            /\ new[Len(old) + 1].is_cleanup = callee[1].is_cleanup
            /\ Len(new[Len(old) + 1].statements) = Len(callee[1].statements)
    ]_vars

\* A call that is not in the entry block of its caller was inlined, with
\* statements materialized in its block.
OnlyAppendsWitness ==
    /\ AfterInlining
    /\ integrator.callsite.bb > 0
    /\ At(BlocksOf(LastCaller), integrator.callsite.bb).terminator.targets
          = <<integrator.block_idx>>
    /\ Len(At(BlocksOf(LastCaller), integrator.callsite.bb).statements) > 0
    /\ integrator.block_idx < Len(BlocksOf(LastCaller))

\* C7 (as claimed): when the fixpoint loop starts, every callsite whose
\* callee is outside the SCC precedes every callsite whose callee is a member
\* of the SCC.
CrossingCallsFirst ==
    (pc = "loop" /\ ~changed) =>
       \A a \in DOMAIN callsites : \A b \in DOMAIN callsites :
          a < b => ~(/\ callsites[a].callee \in SeqRange(scc)
                     /\ callsites[b].callee \notin SeqRange(scc))

\* C8 (as claimed): the fixpoint loop terminates.  In a terminating run no
\* accepted inlining of a foreign callee descends, through the rescans, from
\* an accepted inlining of the same callee with the same substs: the body
\* the cache hands out is the same both times, should_inline and inline_call
\* decide on it alike, and the appended copy holds the same calls, so such
\* an expansion recreates itself without end.
InlineSccTerminates ==
    ~(/\ AfterInlining
      /\ integrator.callsite.callee \in Foreign
      /\ \E n \in DOMAIN integrator.callsite.history :
            integrator.callsite.history[n] = Expanded(integrator.callsite))

\* The callee diverges: its entry block ends in Unreachable or in a call
\* without destination.
Diverges(mir) ==
    LET t == At(mir.blocks, START_BLOCK).terminator
    IN t.kind = "Unreachable" \/ (t.kind = "Call" /\ ~t.dest_some)

\* The threshold as the specification of the admission policy states it.
StatedThreshold(p) ==
    LET t0 == IF p.a.inline \in {"Hint", "Always"} THEN 100 ELSE 50
        t1 == IF p.a.cold THEN t0 \div 5 ELSE t0
        t2 == IF Len(p.callee_mir.blocks) <= 3 THEN t1 + t1 \div 4 ELSE t1
    IN IF Diverges(p.callee_mir) THEN 0 ELSE t2

StatedAdmission(p) ==
    /\ p.callee_mir.upvar_decls = 0
    /\ ~p.a.trait_item
    /\ p.a.inline # "Never"
    /\ p.a.local => (Len(p.substs) >= 1 \/ p.a.inline \in {"Hint", "Always"})
    /\ p.a.inline = "Always" \/ p.cost <= StatedThreshold(p)

\* C9: should_inline returns true exactly when the callee has no upvars, is
\* no trait item, is not inline(never), is generic or hinted if local, and
\* is inline(always) or costs no more than the threshold.
AdmissionAsStated == policy.called => (policy.admit <=> StatedAdmission(policy))

\* A cold, hinted callee of at most three blocks is admitted at a cost the
\* unhinted cold threshold would refuse.
AdmissionWitness ==
    /\ policy.called /\ policy.admit
    /\ policy.a.cold /\ policy.a.inline = "Hint" /\ policy.a.local
    /\ Len(policy.callee_mir.blocks) <= 3
    /\ policy.cost > 12
    /\ policy.cost > 20

StatedEdges(mir, substs, b) ==
    LET t == At(mir.blocks, b).terminator
    IN IF IsDropKind(t)
       THEN SeqRange(t.targets)
            \cup (IF /\ type_needs_drop_given_env(
                           SubstTy(LvalueTy(mir, t.location), substs))
                     /\ t.unwind # None
                  THEN {t.unwind}
                  ELSE {})
       ELSE SeqRange(Successors(t))

\* The blocks reachable from the blocks of seen.
RECURSIVE StatedReachable(_, _, _)
StatedReachable(mir, substs, seen) ==
    LET more == seen \cup UNION {StatedEdges(mir, substs, b) : b \in seen}
    IN IF more = seen THEN seen ELSE StatedReachable(mir, substs, more)

\* The contribution of the terminator of block b, by the stated table.
StatedTerminatorCost(mir, substs, b) ==
    LET t == At(mir.blocks, b).terminator
    IN IF IsDropKind(t)
       THEN IF type_needs_drop_given_env(SubstTy(LvalueTy(mir, t.location), substs))
            THEN 25 ELSE 5
       ELSE IF b = START_BLOCK /\ Diverges(mir) THEN 0
       ELSE IF t.kind = "Call" /\ t.func.const /\ t.func.fn_def
            THEN IF t.func.abi \in {"RustIntrinsic", "PlatformIntrinsic"}
                 THEN 5 ELSE 25
       ELSE IF t.kind = "Assert" THEN 25
       ELSE 5

StatedBlockCost(mir, substs, b) ==
    5 * Cardinality({n \in DOMAIN At(mir.blocks, b).statements :
                       At(mir.blocks, b).statements[n].kind
                          \notin {"StorageLive", "StorageDead", "Nop"}})
    + StatedTerminatorCost(mir, substs, b)

StatedSlotCost(ty, substs) ==
    IF type_size_of(SubstTy(ty, substs)) = None
    THEN 10
    ELSE type_size_of(SubstTy(ty, substs)) \div ptr_size

RECURSIVE SumOver(_, _)
SumOver(f, S) ==
    IF S = {} THEN 0
    ELSE LET x == CHOOSE y \in S : TRUE IN f[x] + SumOver(f, S \ {x})

StatedCost(p) ==
    LET mir == p.callee_mir
        reach == StatedReachable(mir, p.substs, {START_BLOCK})
    IN SumOver([b \in reach |-> StatedBlockCost(mir, p.substs, b)], reach)
       + SumOver([n \in DOMAIN mir.var_decls |->
                     StatedSlotCost(mir.var_decls[n].ty, p.substs)],
                 DOMAIN mir.var_decls)
       + SumOver([n \in DOMAIN mir.temp_decls |->
                     StatedSlotCost(mir.temp_decls[n].ty, p.substs)],
                 DOMAIN mir.temp_decls)

\* C11 (as claimed): the cost should_inline computes is the stated sum over
\* the reachable blocks, each counted once, and over all var and temp slots.
CostAsStated == policy.called => policy.cost = StatedCost(policy)

\* The stated sum is the computed cost for every callee without a call
\* through a constant that is no function definition.
CostAsStatedOfFnDefs ==
    (/\ policy.called
     /\ \A b \in DOMAIN policy.callee_mir.blocks :
           LET t == policy.callee_mir.blocks[b].terminator
           IN t.kind = "Call" /\ t.func.const => t.func.fn_def)
    => policy.cost = StatedCost(policy)

\* C12: an attempt that does not succeed (no body for the callee,
\* should_inline false, inline_call false for caller = callee or for a call
\* without destination) leaves every body as it was and records no caller
\* as modified.
FailedAttempt ==
    /\ InSweep
    /\ \/ Lookup.mir = Nil
       \/ ~Admitted
       \/ ~Attempt.ok

NoPartialFailure ==
    [][FailedAttempt => (map' = map /\ inlined_into' = inlined_into)]_vars

\* inline_call has refused an admitted call without destination, and its
\* terminator is in place.
NoPartialFailureWitness ==
    /\ pc = "sweep"
    /\ csi >= 1
    /\ inlined_into = {}
    /\ LET c == callsites[csi]
           t == At(map[c.caller].blocks, c.bb).terminator
       IN /\ c.caller # c.callee
          /\ is_local(c.callee)
          /\ should_inline(callee_attrs(c.callee), c.substs, map[c.callee])
          /\ t.kind = "Call"
          /\ ~t.dest_some
          /\ start = Len(map[c.caller].blocks)

\* C13: an accepted inlining of callee C into caller F changes the body of
\* F only: every other body of the map is as it was, the cache holds for a
\* foreign C the body that was looked up (the one it held before, if it held
\* one), and the other entries of the cache and the crate store are as they
\* were.
OnlyCallerChanges ==
    [][AcceptedStep =>
         LET c == callsite_now
         IN /\ \A d \in Local \ {c.caller} : map'[d] = map[d]
            /\ c.callee \in Foreign =>
                  /\ foreign_mirs'[c.callee] = Lookup.mir
                  /\ foreign_mirs[c.callee] # Nil =>
                        foreign_mirs'[c.callee] = foreign_mirs[c.callee]
            /\ \A d \in Foreign \ {c.callee} : foreign_mirs'[d] = foreign_mirs[d]
            /\ tcx' = tcx
    ]_vars

\* A foreign callee was inlined a second time into a caller, and the cache
\* still holds the body of the crate store; the other local body is an input
\* body.
OnlyCallerChangesWitness ==
    /\ AfterInlining
    /\ integrator.callsite.callee \in Foreign
    /\ \E n \in DOMAIN integrator.callsite.history :
          integrator.callsite.history[n].callee = integrator.callsite.callee
    /\ foreign_mirs[integrator.callsite.callee] = tcx.cstore[integrator.callsite.callee]
    /\ map[LastCaller] \notin BodiesF \cup BodiesG
    /\ \E d \in Local \ {LastCaller} : map[d] \in BodiesF \cup BodiesG

\* C14: the cache of foreign bodies only grows.  An entry, once there, stays
\* as it is; a call of get_foreign_mir that returns a body leaves the cache
\* holding that body; a call for an id the cache holds returns the entry and
\* does not ask the crate store.
ForeignLookup == InSweep /\ callsite_now.callee \in Foreign

CacheAppendOnly ==
    [][/\ \A d \in Foreign : foreign_mirs[d] # Nil => foreign_mirs'[d] = foreign_mirs[d]
       /\ (ForeignLookup /\ Lookup.mir # Nil) =>
             foreign_mirs'[callsite_now.callee] = Lookup.mir
       /\ (ForeignLookup /\ foreign_mirs[callsite_now.callee] # Nil) =>
             /\ Lookup.mir = foreign_mirs[callsite_now.callee]
             /\ ~Lookup.consulted
    ]_vars

\* A callsite of a foreign callee stands to be looked up while the cache
\* holds the callee's body and that of another foreign function.
CacheAppendOnlyWitness ==
    /\ ForeignLookup
    /\ foreign_mirs[callsite_now.callee] # Nil
    /\ \E d \in Foreign \ {callsite_now.callee} : foreign_mirs[d] # Nil
    /\ inlined_into # {}

\* C16: in the blocks an accepted inlining appends, a Return of the callee
\* is Goto to the return target of the call, a block index of the caller
\* that is not shifted; a Resume of the callee is Goto to the cleanup block
\* of the call if it has one, and is Resume still if it has none.
ReturnResumeRewritten ==
    [][AcceptedStep =>
         LET c == callsite_now
             old == map[c.caller].blocks
             new == map'[c.caller].blocks
             callee == Lookup.mir.blocks
             call == old[c.bb + 1].terminator
         IN \A j \in DOMAIN callee :
               LET t == callee[j].terminator
                   u == new[Len(old) + j].terminator
               IN /\ t.kind = "Return" =>
                        u.kind = "Goto" /\ u.targets = <<call.dest_target>>
                  /\ (t.kind = "Resume" /\ call.unwind # None) =>
                        u.kind = "Goto" /\ u.targets = <<call.unwind>>
                  /\ (t.kind = "Resume" /\ call.unwind = None) =>
                        u.kind = "Resume"
    ]_vars

\* A callee with Return and Resume was inlined at a call with a cleanup
\* edge: an appended cleanup block goes to the cleanup block of the call,
\* another appended block to its return target.
ReturnResumeWitness ==
    /\ AfterInlining
    /\ integrator.cleanup_block # None
    /\ integrator.return_block < integrator.block_idx
    /\ \E b \in Appended :
          LET blk == At(BlocksOf(LastCaller), b)
          IN /\ blk.is_cleanup
             /\ blk.terminator.kind = "Goto"
             /\ blk.terminator.targets = <<integrator.cleanup_block>>
    /\ \E b \in Appended :
          LET blk == At(BlocksOf(LastCaller), b)
          IN /\ ~blk.is_cleanup
             /\ blk.terminator.kind = "Goto"
             /\ blk.terminator.targets = <<integrator.return_block>>

\* C17: in the blocks an accepted inlining appends, the unwind or cleanup
\* edge of a Drop, DropAndReplace, Call or Assert of the callee is the
\* callee's edge plus the block offset if the callee had one; the cleanup
\* edge of the call (absent if the call has none) if the callee had none and
\* the block is no cleanup block of the callee; absent otherwise.
UnwindEdgesIntegrated ==
    [][AcceptedStep =>
         LET c == callsite_now
             old == map[c.caller].blocks
             new == map'[c.caller].blocks
             callee == Lookup.mir.blocks
             call == old[c.bb + 1].terminator
         IN \A j \in DOMAIN callee :
               LET t == callee[j].terminator
                   u == new[Len(old) + j].terminator
               IN t.kind \in {"Drop", "DropAndReplace", "Call", "Assert"} =>
                     /\ u.kind = t.kind
                     /\ u.unwind =
                           IF t.unwind # None THEN t.unwind + Len(old)
                           ELSE IF ~callee[j].is_cleanup THEN call.unwind
                           ELSE None
    ]_vars

\* The three cases in one integration: a relocated edge, an edge filled in
\* with the cleanup block of the call, and a drop in a cleanup block of the
\* callee left without edge.
UnwindEdgesIntegratedWitness ==
    /\ AfterInlining
    /\ integrator.cleanup_block # None
    /\ \E b \in Appended :
          LET blk == At(BlocksOf(LastCaller), b)
          IN /\ ~blk.is_cleanup
             /\ blk.terminator.kind = "DropAndReplace"
             /\ blk.terminator.unwind >= integrator.block_idx
    /\ \E b \in Appended :
          LET blk == At(BlocksOf(LastCaller), b)
          IN /\ ~blk.is_cleanup
             /\ blk.terminator.kind = "Assert"
             /\ blk.terminator.unwind = integrator.cleanup_block
    /\ \E b \in Appended :
          LET blk == At(BlocksOf(LastCaller), b)
          IN /\ blk.is_cleanup
             /\ blk.terminator.kind = "Drop"
             /\ blk.terminator.unwind = None

\* The body of the callee of the last accepted inlining: no body but the
\* caller's has changed since.
LastCalleeMir ==
    IF integrator.callsite.callee \in Local
    THEN map[integrator.callsite.callee]
    ELSE foreign_mirs[integrator.callsite.callee]

\* C18 (as claimed): after an accepted inlining the parent of the image of a
\* callee root scope is the scope of the callsite, and the parent of the
\* image of any other callee scope is the image of its callee parent.
ScopesNestUnderCallsite ==
    AfterInlining =>
       \A j \in DOMAIN LastCalleeMir.visibility_scopes :
          At(map[LastCaller].visibility_scopes, integrator.scope_map[j]).parent_scope
             = IF LastCalleeMir.visibility_scopes[j].parent_scope = None
               THEN integrator.callsite.location.scope
               ELSE integrator.scope_map[
                       LastCalleeMir.visibility_scopes[j].parent_scope + 1]

\* The same for the root scopes of the callee alone.
RootScopesUnderCallsite ==
    AfterInlining =>
       \A j \in DOMAIN LastCalleeMir.visibility_scopes :
          LastCalleeMir.visibility_scopes[j].parent_scope = None =>
             At(map[LastCaller].visibility_scopes,
                integrator.scope_map[j]).parent_scope
                = integrator.callsite.location.scope

\* C19 (as claimed): no callsite on the list lies in a block flagged
\* is_cleanup, whether the caller had the block from the start or an
\* inlining appended it.
NoCallsiteInCleanup ==
    pc \in {"reorder", "loop", "sweep"} =>
       \A n \in DOMAIN callsites :
          ~At(map[callsites[n].caller].blocks, callsites[n].bb).is_cleanup

\* What identifies a callsite.
CallSiteKey(c) == [caller |-> c.caller, callee |-> c.callee, substs |-> c.substs,
                   bb |-> c.bb]

\* The callsites of the direct calls that end the blocks from index from on
\* of the body mir of F, but for the calls to C.
DirectCallsFrom(F, C, mir, from) ==
    {[caller |-> F, callee |-> At(mir.blocks, b).terminator.func.callee,
      substs |-> At(mir.blocks, b).terminator.func.substs, bb |-> b] :
       b \in {x \in Idxs(mir.blocks) :
                /\ x >= from
                /\ At(mir.blocks, x).terminator.kind = "Call"
                /\ At(mir.blocks, x).terminator.func.const
                /\ At(mir.blocks, x).terminator.func.fn_def
                /\ At(mir.blocks, x).terminator.func.callee # C}}

\* C20: an accepted inlining of C into F takes the inlined callsite off the
\* list and puts on it one callsite for each direct call that ends an
\* appended block and whose callee is not C, with caller F and the index
\* of the block, and nothing else.
RescanAddsAppendedCalls ==
    [][(AcceptedStep /\ pc' = "sweep") =>
         LET c == callsite_now
             kept == {CallSiteKey(callsites[n]) :
                        n \in DOMAIN callsites \ {csi + 1}}
             added == DirectCallsFrom(c.caller, c.callee, map'[c.caller],
                                      Len(map[c.caller].blocks))
         IN /\ {CallSiteKey(callsites'[n]) : n \in DOMAIN callsites'}
                  = kept \cup added
            /\ Len(callsites') = Len(callsites) - 1 + Cardinality(added)
    ]_vars

\* The list holds a callsite found by a rescan, in a block the last
\* inlining appended, beside a callsite collected at the start.
RescanWitness ==
    /\ pc = "sweep"
    /\ AfterInlining
    /\ \E n \in DOMAIN callsites :
          /\ callsites[n].caller = LastCaller
          /\ callsites[n].bb \in Appended
          /\ callsites[n].history # <<>>
    /\ \E n \in DOMAIN callsites : callsites[n].history = <<>>

\* C21, as stated: a callsite the loop has passed over without inlining it
\* is never inlined in a later sweep.
RejectedStaysRejected ==
    [][AcceptedStep => callsite_now.rejected = <<>>]_vars

\* C21, amended: a callsite the loop has passed over is passed over again
\* in every later sweep that finds the callee's body as it was; it is
\* inlined later only if the callee is a function of the component that has
\* been inlined into since, and is then judged against the changed body.
RejectedUntilCalleeChanges ==
    [][(AcceptedStep /\ callsite_now.rejected # <<>>) =>
          /\ \A n \in DOMAIN callsite_now.rejected :
                 callsite_now.rejected[n] # Lookup.mir
          /\ callsite_now.callee \in inlined_into
          /\ callsite_now.callee \in in_scc
    ]_vars

\* The loop stands in a later sweep before a callsite it passed over and
\* now admits, the callee's body having changed, while a callsite further
\* on that it passed over as well still waits.
RejectedWitness ==
    /\ InSweep
    /\ callsite_now.rejected # <<>>
    /\ Lookup.mir # callsite_now.rejected[1]
    /\ Admitted
    /\ Attempt.ok
    /\ \E n \in DOMAIN callsites : n > csi + 1 /\ callsites[n].rejected # <<>>

\* A callsite as it was discovered, without the history of the sweeps.
Discovered(c) == [c EXCEPT !.rejected = <<>>, !.seen = FALSE]

DiscoveredList(v) == [n \in DOMAIN v |-> Discovered(v[n])]

\* The step inlines the callsite at csi and goes on with the sweep.
InlinedStep == AcceptedStep /\ pc' = "sweep"

\* A callsite leaves the list only in the step that inlines it.
LeavesOnlyWhenAccepted ==
    \A n \in DOMAIN callsites :
       (\A m \in DOMAIN callsites' : Discovered(callsites'[m]) # Discovered(callsites[n]))
          => InlinedStep /\ n = csi + 1

\* The step that inlines a callsite removes it alone: the others stay, and
\* what is new lies in the blocks the step appended.
RemovesJustThatOne ==
    InlinedStep =>
       /\ \A n \in DOMAIN callsites \ {csi + 1} :
             \E m \in DOMAIN callsites' : callsites'[m] = callsites[n]
       /\ \A m \in DOMAIN callsites' :
             Discovered(callsites'[m]) # Discovered(callsite_now)
       /\ \A m \in DOMAIN callsites' :
             \/ \E n \in DOMAIN callsites \ {csi + 1} : callsites'[m] = callsites[n]
             \/ /\ callsites'[m].caller = callsite_now.caller
                /\ callsites'[m].bb >= Len(map[callsite_now.caller].blocks)

\* With more than one function in the component the others keep their
\* order, and the callsites found by the rescan follow them.
RemovalKeepsOrder ==
    (InlinedStep /\ Len(scc) > 1) =>
       /\ Len(callsites') >= Len(callsites) - 1
       /\ SubSeq(callsites', 1, Len(callsites) - 1)
             = SubSeq(callsites, 1, csi) \o SubSeq(callsites, csi + 2, Len(callsites))

\* While a sweep is under way it has examined the callsites before csi and
\* no other, so whatever takes the place of a removed callsite is examined
\* before the sweep ends.
ExaminedUpToCsi ==
    pc = "sweep" => \A n \in DOMAIN callsites : callsites[n].seen <=> n <= csi

\* C22: a callsite leaves the list only when it is inlined, and then it
\* alone; with more than one function in the component the remaining
\* callsites keep their order and the new ones follow them; and the callsite
\* that takes the freed position is examined in the same sweep.
RemovalAsStated ==
    /\ [][LeavesOnlyWhenAccepted /\ RemovesJustThatOne /\ RemovalKeepsOrder]_vars
    /\ []ExaminedUpToCsi

\* In a component of two functions a sweep has passed over a callsite and
\* inlined the next one: a callsite collected at the start has taken the
\* freed position and waits to be examined, and the callsites the rescan
\* found in the appended blocks are at the end of the list.
RemovalWitness ==
    /\ pc = "sweep"
    /\ Len(scc) > 1
    /\ AfterInlining
    /\ local_change
    /\ csi >= 1
    /\ csi + 1 < Len(callsites)
    /\ callsites[csi + 1].history = <<>>
    /\ ~callsites[csi + 1].seen
    /\ callsites[Len(callsites)].bb \in Appended
    /\ callsites[Len(callsites)].caller = LastCaller

\* v and w hold the same elements, each as often in one as in the other.
IsPermutation(v, w) ==
    /\ Len(v) = Len(w)
    /\ \A n \in DOMAIN v :
          Cardinality({m \in DOMAIN v : v[m] = v[n]})
             = Cardinality({m \in DOMAIN w : w[m] = v[n]})

\* The reordering is over and the fixpoint loop has not begun.
Reordered == pc = "loop" /\ inlined_into = {} /\ ~changed

\* The callsites before first are of callers outside the component, those
\* from last on of callers in it.
Partitioned(v, first, last) ==
    /\ \A n \in DOMAIN v : n <= first => v[n].caller \notin in_scc
    /\ \A n \in DOMAIN v : n > last => v[n].caller \in in_scc

ReorderKeepsCallsites ==
    (pc = "reorder" \/ Reordered) =>
       /\ IsPermutation(callsites, collect_scc(scc, map))
       /\ 0 <= i /\ i <= first_call_in_scc /\ first_call_in_scc <= Len(callsites)
       /\ Partitioned(callsites, i, first_call_in_scc)
       /\ Reordered => i = first_call_in_scc

ReorderProgresses ==
    (pc = "reorder" /\ pc' = "reorder") =>
       first_call_in_scc' - i' < first_call_in_scc - i

\* C23: the reordering loop ends, each iteration narrowing the range between
\* i and first_call_in_scc, and leaves a permutation of the collected
\* callsites in which those of callers in the component come after those of
\* callers outside it.
ReorderIsPartition ==
    /\ []ReorderKeepsCallsites
    /\ [][ReorderProgresses]_vars

\* The reordering has ended on three callsites in another order than they
\* were collected in.
ReorderWitness ==
    /\ Reordered
    /\ Len(callsites) >= 3
    /\ callsites # collect_scc(scc, map)

\* The lvalues an lvalue, operand, rvalue, statement, terminator or block
\* mentions, each with the lvalues under its projections.
RECURSIVE SubLvalues(_), OpLvalues(_)
SubLvalues(lv) ==
    {lv} \cup (IF lv.lk = "Projection"
               THEN SubLvalues(lv.base)
                    \cup (IF lv.elem.ek = "Index" THEN OpLvalues(lv.elem.op) ELSE {})
               ELSE {})

OpLvalues(op) == IF op.ok = "Consume" THEN SubLvalues(op.lv) ELSE {}

RvLvalues(rv) == IF rv.rk = "Ref" THEN SubLvalues(rv.lv) ELSE OpLvalues(rv.op)

StmtLvalues(st) ==
    CASE st.kind = "Assign" -> SubLvalues(st.lv) \cup RvLvalues(st.rv)
      [] st.kind \in {"StorageLive", "StorageDead"} -> SubLvalues(st.lv)
      [] OTHER -> {}

TermLvalues(t) ==
    UNION {OpLvalues(t.args[n]) : n \in DOMAIN t.args}
    \cup (IF t.dest_some THEN SubLvalues(t.dest_lv) ELSE {})
    \cup (IF IsDropKind(t) THEN SubLvalues(t.location) ELSE {})

BlockLvalues(blk) ==
    UNION {StmtLvalues(blk.statements[n]) : n \in DOMAIN blk.statements}
    \cup TermLvalues(blk.terminator)

\* Where the callee's lvalue c has ReturnPointer, the lvalue n of the appended
\* block has d.
RECURSIVE RetBecomes(_, _, _), OpRetBecomes(_, _, _)
RetBecomes(c, n, d) ==
    CASE c.lk = "ReturnPointer" -> n = d
      [] c.lk = "Projection" ->
           /\ n.lk = "Projection"
           /\ RetBecomes(c.base, n.base, d)
           /\ c.elem.ek = "Index" => OpRetBecomes(c.elem.op, n.elem.op, d)
      [] OTHER -> TRUE

OpRetBecomes(c, n, d) ==
    c.ok = "Consume" => (n.ok = "Consume" /\ RetBecomes(c.lv, n.lv, d))

RvRetBecomes(c, n, d) ==
    IF c.rk = "Ref"
    THEN n.rk = "Ref" /\ RetBecomes(c.lv, n.lv, d)
    ELSE OpRetBecomes(c.op, n.op, d)

StmtRetBecomes(c, n, d) ==
    /\ c.kind \in {"Assign", "StorageLive", "StorageDead"} => RetBecomes(c.lv, n.lv, d)
    /\ c.kind = "Assign" => RvRetBecomes(c.rv, n.rv, d)

TermRetBecomes(c, n, d) ==
    /\ \A k \in DOMAIN c.args : OpRetBecomes(c.args[k], n.args[k], d)
    /\ c.dest_some => RetBecomes(c.dest_lv, n.dest_lv, d)
    /\ IsDropKind(c) => RetBecomes(c.location, n.location, d)

BlockRetBecomes(c, n, d) ==
    /\ Len(n.statements) = Len(c.statements)
    /\ \A k \in DOMAIN c.statements :
          StmtRetBecomes(c.statements[k], n.statements[k], d)
    /\ TermRetBecomes(c.terminator, n.terminator, d)

\* One call of inline_call that integrated the callee.
IntegrateStep == pc = "inline_call" /\ pc' = "inlined"

\* The destination of the call, the statements of the callsite block before
\* and after the step, and the blocks the step appended.
DestBefore == At(map[callsite_now.caller].blocks, callsite_now.bb).terminator.dest_lv

StmtsBefore == At(map[callsite_now.caller].blocks, callsite_now.bb).statements

StmtsAfter == At(map'[callsite_now.caller].blocks, callsite_now.bb).statements

AppendedAfter ==
    {b \in DOMAIN map'[callsite_now.caller].blocks :
        b > Len(map[callsite_now.caller].blocks)}

\* Every ReturnPointer of the callee has become d in the appended blocks, and
\* none is left.
ReturnPointerBecomes(d) ==
    \A b \in AppendedAfter :
       /\ BlockRetBecomes(Lookup.mir.blocks[b - Len(map[callsite_now.caller].blocks)],
                          map'[callsite_now.caller].blocks[b], d)
       /\ ReturnPointer \notin BlockLvalues(map'[callsite_now.caller].blocks[b])

\* The statements the step added to the callsite block that borrow the
\* destination.
BorrowsAdded ==
    {n \in DOMAIN StmtsAfter :
        /\ n > Len(StmtsBefore)
        /\ StmtsAfter[n].kind = "Assign"
        /\ StmtsAfter[n].rv.rk = "Ref"
        /\ StmtsAfter[n].rv.lv = DestBefore}

\* temp = &mut dest is the one borrow added, temp is a new temporary, and
\* every ReturnPointer has become *temp.
BorrowedDestination ==
    /\ Cardinality(BorrowsAdded) = 1
    /\ \E n \in BorrowsAdded :
          /\ StmtsAfter[n].lv.lk = "Temp"
          /\ StmtsAfter[n].lv.idx >= Len(map[callsite_now.caller].temp_decls)
          /\ StmtsAfter[n].lv.idx < Len(map'[callsite_now.caller].temp_decls)
          /\ Deref(StmtsAfter[n].lv) # DestBefore
          /\ ReturnPointerBecomes(Deref(StmtsAfter[n].lv))

DirectDestination ==
    /\ BorrowsAdded = {}
    /\ ReturnPointerBecomes(DestBefore)

RECURSIVE HasDerefOrIndex(_)
HasDerefOrIndex(lv) ==
    /\ lv.lk = "Projection"
    /\ lv.elem.ek \in {"Deref", "Index"} \/ HasDerefOrIndex(lv.base)

RECURSIVE BaseOf(_)
BaseOf(lv) == IF lv.lk = "Projection" THEN BaseOf(lv.base) ELSE lv

\* C24, as stated: the destination is borrowed exactly when it is a Static
\* or has a Deref or Index on its path; then temp = &mut dest is added to
\* the callsite block, every ReturnPointer becomes *temp and the destination
\* occurs nowhere in the appended blocks; else every ReturnPointer becomes
\* the destination.
DestinationBorrowAsStated ==
    [][IntegrateStep =>
         IF DestBefore.lk = "Static" \/ HasDerefOrIndex(DestBefore)
         THEN /\ BorrowedDestination
              /\ \A b \in AppendedAfter :
                    DestBefore \notin BlockLvalues(map'[callsite_now.caller].blocks[b])
         ELSE DirectDestination
    ]_vars

\* C24, amended: the destination is borrowed exactly when its base is a
\* Static or it has a Deref or Index on its path; then temp = &mut dest is
\* added to the callsite block and every ReturnPointer becomes *temp, never
\* the destination; else every ReturnPointer becomes the destination.
DestinationBorrow ==
    [][IntegrateStep =>
         IF BaseOf(DestBefore).lk = "Static" \/ HasDerefOrIndex(DestBefore)
         THEN BorrowedDestination
         ELSE DirectDestination
    ]_vars

\* inline_call has integrated a callee that names a static into a call whose
\* destination is a field of that static: the callsite block borrows the
\* destination into a temporary, and the appended blocks write through the
\* temporary where the callee had ReturnPointer.
DestinationBorrowWitness ==
    /\ pc = "inlined"
    /\ integrator.destination.lk = "Projection"
    /\ integrator.destination.elem.ek = "Deref"
    /\ integrator.destination.base.lk = "Temp"
    /\ \E n \in DOMAIN At(map["f"].blocks, callsite_now.bb).statements :
          At(map["f"].blocks, callsite_now.bb).statements[n]
             = Assign(integrator.destination.base,
                      RvRef(Projection(LvStatic, ElemField)), callsite_now.location)
    /\ \E b \in DOMAIN map["f"].blocks :
          /\ b > start
          /\ integrator.destination \in BlockLvalues(map["f"].blocks[b])
          /\ LvStatic \in BlockLvalues(map["f"].blocks[b])

\* A step that integrated a callee: one call of inline_call on its own, or
\* an accepted inlining of the pass.
IntegratedStep == IntegrateStep \/ InlinedStep

\* The operands of the call before the step.
OperandsBefore == At(map[callsite_now.caller].blocks, callsite_now.bb).terminator.args

\* C25: every argument the Integrator is given is Consume of a declared
\* temporary - the operand itself if it was one, else a new temporary - and
\* no lvalue of the appended blocks is the one the internal-error branch of
\* visit_lvalue leaves.
ArgsAreTemps ==
    [][IntegratedStep =>
         /\ Len(integrator'.args) = Len(OperandsBefore)
         /\ \A n \in DOMAIN integrator'.args :
               /\ integrator'.args[n].ok = "Consume"
               /\ integrator'.args[n].lv.lk = "Temp"
               /\ integrator'.args[n].lv.idx < Len(map'[callsite_now.caller].temp_decls)
               /\ \/ integrator'.args[n] = OperandsBefore[n]
                  \/ integrator'.args[n].lv.idx
                        >= Len(map[callsite_now.caller].temp_decls)
         /\ \A b \in AppendedAfter :
               BugLvalue \notin BlockLvalues(map'[callsite_now.caller].blocks[b])
    ]_vars

\* inline_call has copied a constant argument into a temporary, and an
\* appended block uses the temporary where the callee had a field of its
\* argument as an lvalue.
ArgsAreTempsWitness ==
    /\ pc = "inlined"
    /\ \E n \in DOMAIN At(map["f"].blocks, callsite_now.bb).statements :
          At(map["f"].blocks, callsite_now.bb).statements[n]
             = Assign(integrator.args[1].lv, RvUse(Constant), callsite_now.location)
    /\ \E b \in DOMAIN map["f"].blocks :
          /\ b > start
          /\ Projection(integrator.args[1].lv, ElemField)
                \in BlockLvalues(map["f"].blocks[b])

\* A remap table is total on the n indices of the callee, injective, and
\* its range lies in the slots from before up to after.
RemapFresh(table, n, before, after) ==
    /\ Len(table) = n
    /\ \A a, b \in DOMAIN table : table[a] = table[b] => a = b
    /\ \A a \in DOMAIN table : before <= table[a] /\ table[a] < after

\* The temporaries of the destination borrow and of the arguments.
OwnTemps(I) ==
    {I.args[n].lv.idx : n \in DOMAIN I.args}
    \cup (IF I.destination # DestBefore THEN {I.destination.base.idx} ELSE {})

\* C26: in every integration var_map, tmp_map, scope_map and promoted_map
\* have one entry for each index of the callee, are injective, and map into
\* slots the caller did not have before the integration; tmp_map maps to
\* none of the temporaries made for the destination and the arguments.
RemapTablesFresh ==
    [][IntegratedStep =>
         /\ RemapFresh(integrator'.var_map, Len(Lookup.mir.var_decls),
                       Len(map[callsite_now.caller].var_decls),
                       Len(map'[callsite_now.caller].var_decls))
         /\ RemapFresh(integrator'.tmp_map, Len(Lookup.mir.temp_decls),
                       Len(map[callsite_now.caller].temp_decls),
                       Len(map'[callsite_now.caller].temp_decls))
         /\ RemapFresh(integrator'.scope_map, Len(Lookup.mir.visibility_scopes),
                       Len(map[callsite_now.caller].visibility_scopes),
                       Len(map'[callsite_now.caller].visibility_scopes))
         /\ RemapFresh(integrator'.promoted_map, Len(Lookup.mir.promoted),
                       Len(map[callsite_now.caller].promoted),
                       Len(map'[callsite_now.caller].promoted))
         /\ \A a \in DOMAIN integrator'.tmp_map :
               integrator'.tmp_map[a] \notin OwnTemps(integrator')
    ]_vars

\* inline_call has integrated a callee with two variables, two temporaries
\* and two promoted constants into a call for which it made a temporary for
\* the destination and one for the argument.
RemapTablesWitness ==
    /\ pc = "inlined"
    /\ Len(integrator.var_map) = 2
    /\ Len(integrator.tmp_map) = 2
    /\ Len(integrator.promoted_map) = 2
    /\ integrator.destination.lk = "Projection"
    /\ integrator.destination.base.lk = "Temp"
    /\ integrator.destination.base.idx > integrator.tmp_map[2]
    /\ integrator.args[1].lv.idx > integrator.destination.base.idx

\* C27: while inline_scc reorders and sweeps the list, every callsite on it
\* names a block of its caller that ends in a direct Call to the callee and
\* with the substs it records, and no two callsites name the same block of
\* the same caller.
CallsitesNameCalls ==
    pc \in {"reorder", "loop", "sweep"} =>
       /\ \A n \in DOMAIN callsites :
             /\ callsites[n].caller \in DOMAIN map
             /\ callsites[n].bb >= 0
             /\ callsites[n].bb < Len(map[callsites[n].caller].blocks)
             /\ At(map[callsites[n].caller].blocks, callsites[n].bb).terminator # Nil
             /\ is_direct_call(
                   At(map[callsites[n].caller].blocks, callsites[n].bb).terminator)
             /\ At(map[callsites[n].caller].blocks, callsites[n].bb).terminator.func
                   = FnConst(callsites[n].callee, callsites[n].substs,
                             At(map[callsites[n].caller].blocks,
                                callsites[n].bb).terminator.func.abi)
       /\ \A n, m \in DOMAIN callsites :
             (callsites[n].caller = callsites[m].caller
              /\ callsites[n].bb = callsites[m].bb) => n = m

\* After an inlining in the sweep under way the list holds a callsite in an
\* appended block and a callsite of the same caller that the loop has
\* passed over and that is still a call.
CallsitesNameCallsWitness ==
    /\ pc = "sweep"
    /\ AfterInlining
    /\ local_change
    /\ \E n, m \in DOMAIN callsites :
          /\ callsites[n].caller = LastCaller
          /\ callsites[m].caller = LastCaller
          /\ callsites[n].bb \in Appended
          /\ callsites[m].bb \notin Appended
          /\ callsites[m].rejected # <<>>

====
